---- MODULE Spec2Model ----
(***************************************************************************)
(* The adaptive learning engine of ai-services                             *)
(* (adaptive_learning_service.py): the lesson scorer, the recommendation   *)
(* engine and the difficulty adaptation decision, as state machines over   *)
(* the key-value store and the lesson catalog.                             *)
(*                                                                         *)
(* Floats are exact rationals: a sub-score s is the integer s * One, a     *)
(* weighted score the integer s * One * WeightScale.  Strings that the     *)
(* code lower-cases or searches are sequences of characters.               *)
(***************************************************************************)
EXTENDS Integers, Sequences, FiniteSets, TLC

VARIABLES
    \* ---- the store and the catalog, as the recommendation engine reads them
    catalog,            \* lessons available to the user, in catalog order
    user_profile,       \* value of user_profile:{user}, or NoProfile
    user_history,       \* the user's sessions, start time ascending
    completed_lessons,  \* the user's completed-lesson set
    \* ---- one get_next_lesson_recommendations call
    pc,                 \* "idle", "get_profile", "get_history", "get_lessons", "score", "done"
    req_count,          \* the count argument
    profile, history, available_lessons, recommendations, idx,   \* its locals
    result,             \* what the call returned
    outcome,            \* "none", "returned", "raised"
    failed,             \* the except branch was taken
    \* ---- bookkeeping across calls
    calls,              \* completed calls
    prev_result, prev_failed,   \* the previous completed call
    dirty_cur, dirty_prev,   \* a write since this call began / during the previous one
    writes,             \* store writes so far
    \* ---- one adapt_lesson_difficulty call
    a_pc,               \* "idle", "get_history", "log", "done"
    perf_history,       \* the stored performance history of (user, lesson)
    adaptation_log,     \* the audit records written by _log_adaptation
    current_performance,\* the sample
    a_history, adaptation_type, adaptation,     \* its locals
    a_result, a_outcome,
    history_failed, log_failed,                 \* which step raised
    a_calls, a_prev,    \* completed calls, and what the previous one saw and returned
    \* ---- the key-value store, as _store_session writes it
    redis_strings,      \* key -> value of the keys written with SET
    redis_lists,        \* key -> list of the keys written with LPUSH
    \* ---- the analyze_learning_session requests, by request
    an_pc,              \* "idle", "set", "lpush", "ltrim", "update_profile", "metrics",
                        \* "insights", "recommend", "done"
    an_session,         \* the session argument
    an_trace,           \* the steps the request has started, in order
    an_metrics, an_insights,    \* its locals
    an_ticket,          \* the completed recommendation calls when its own was issued
    an_result, an_outcome,
    \* ---- store operations handed to run_in_executor
    op_state,           \* by request: "idle", "queued", "running"
    ops_done,           \* by request: store operations completed
    \* ---- one application of a scorer function or of get_learning_analytics
    fn_in, fn_out,
    \* ---- the sign-recognition service
    active_sessions,    \* session id -> config
    ACTIVE_SESSIONS,    \* the gauge
    sign_strings,       \* the ids whose session:{id} key is in the store
    sign_lists,         \* session id -> the list under results:{id}, newest first
    now,                \* the current second
    sign_req,           \* by request: the call and where it stands
    \* ---- real-time transcription of one session
    audio_chunks,       \* the chunks under audio_chunks:{session_id}, in append order
    speech_req          \* by call: the chunk and where the call stands

rec_vars == <<catalog, user_profile, user_history, completed_lessons, pc, req_count,
              profile, history, available_lessons, recommendations, idx, result,
              outcome, failed, calls, prev_result, prev_failed,
              dirty_cur, dirty_prev, writes>>
adapt_vars == <<a_pc, perf_history, adaptation_log, current_performance, a_history,
                adaptation_type, adaptation, a_result, a_outcome, history_failed,
                log_failed, a_calls, a_prev>>
analyze_vars == <<redis_strings, redis_lists, an_pc, an_session, an_trace, an_metrics,
                  an_insights, an_ticket, an_result, an_outcome>>
pool_vars == <<op_state, ops_done>>
fn_vars == <<fn_in, fn_out>>
sign_vars == <<active_sessions, ACTIVE_SESSIONS, sign_strings, sign_lists, now, sign_req>>
speech_vars == <<audio_chunks, speech_req>>
svc_vars == <<sign_vars, speech_vars>>
ext_vars == <<analyze_vars, pool_vars, fn_vars, svc_vars>>
vars == <<rec_vars, adapt_vars, ext_vars>>

\* ---------------------------------------------------------------- bounds
MaxCatalog == 2
MaxCalls == 2
MaxWrites == 1
MaxAdaptCalls == 2
MaxPerfHistory == 1
MaxRequests == 2
MaxPoolRequests == 3
MaxOps == 2
MaxHistoryLen == 11
MaxSignRequests == 3
MaxClock == 1
MaxSpeechRequests == 2

\* ------------------------------------------------------------ arithmetic
\* 1.0 as a sub-score; divisible by 10 and by every list length below.
One == 120
\* weights are twentieths: a weighted score of 1.0 is One * WeightScale
WeightScale == 20
FullScore == One * WeightScale
Tenths(n) == (n * One) \div 10

Min(a, b) == IF a <= b THEN a ELSE b
Max(a, b) == IF a >= b THEN a ELSE b

\* dict.get(key, default)
Get(d, key, default) == IF key \in DOMAIN d THEN d[key] ELSE default

\* ------------------------------------------------------------- strings
LowerChar(c) ==
    CASE c = "A" -> "a"
      [] c = "S" -> "s"
      [] c = "L" -> "l"
      [] OTHER -> c
\* str.lower()
Lower(s) == [i \in DOMAIN s |-> LowerChar(s[i])]
\* a in b, for strings
IsSubstring(a, b) ==
    \E k \in 0..(Len(b) - Len(a)) : \A i \in 1..Len(a) : b[k + i] = a[i]
\* x in list
InList(x, list) == \E i \in DOMAIN list : list[i] = x

\* ------------------------------------------------------------ the scorer
\* an unknown difficulty taken for the lowest level
DifficultyLevelUnknownLowest(d) ==
    CASE d = "beginner" -> 1 [] d = "intermediate" -> 2 [] d = "advanced" -> 3 [] OTHER -> 1

DifficultyLevel(d) ==
    CASE d = "beginner" -> 1
      [] d = "intermediate" -> 2
      [] d = "advanced" -> 3
      [] OTHER -> 2

calculate_difficulty_match(lesson_difficulty, user_skill) ==
    LET diff == DifficultyLevel(lesson_difficulty) - DifficultyLevel(user_skill)
    IN  IF diff = 0 THEN One
        ELSE IF diff = 1 THEN Tenths(8)
        ELSE IF diff = -1 THEN Tenths(6)
        ELSE Tenths(2)

calculate_style_match(lesson, learning_style) ==
    LET lesson_type == Get(lesson, "type", "mixed")
    IN  IF learning_style = lesson_type \/ learning_style = "mixed" THEN One
        ELSE IF lesson_type = "mixed" THEN Tenths(8)
        ELSE Tenths(4)

check_prerequisites(prerequisites, completed) ==
    IF prerequisites = <<>> THEN One
    ELSE LET completed_count ==
                 Cardinality({i \in DOMAIN prerequisites : prerequisites[i] \in completed})
         IN  (completed_count * One) \div Len(prerequisites)

\* history[-10:]
NoveltyWindow == 10
\* the whole history for its last n entries
WholeHistory(s, n) == s
LastN(s, n) == IF Len(s) <= n THEN s ELSE SubSeq(s, Len(s) - n + 1, Len(s))

calculate_novelty_score(lesson_id, hist) ==
    LET recent_lessons == [i \in DOMAIN LastN(hist, NoveltyWindow) |->
                              LastN(hist, NoveltyWindow)[i].lesson_id]
    IN  IF ~InList(lesson_id, recent_lessons) THEN One
        ELSE LET \* len - reversed.index(id) - 1: the 0-based index of the last occurrence
                 last == CHOOSE i \in DOMAIN recent_lessons :
                             /\ recent_lessons[i] = lesson_id
                             /\ \A j \in DOMAIN recent_lessons :
                                    recent_lessons[j] = lesson_id => j <= i
                 recent_index == last - 1
             IN  Max(Tenths(2), One - Tenths(recent_index))

calculate_goal_alignment(lesson, goals) ==
    IF goals = <<>> THEN One \div 2
    ELSE LET lesson_tags == Get(lesson, "tags", <<>>)
             lesson_category == Get(lesson, "category", <<>>)
             lower_tags == [i \in DOMAIN lesson_tags |-> Lower(lesson_tags[i])]
             \* each goal's addition, in halves
             Halves(goal) ==
                 IF InList(Lower(goal), lower_tags) THEN 2
                 ELSE IF IsSubstring(Lower(goal), Lower(lesson_category)) THEN 1
                 ELSE 0
             SumHalves[i \in 0..Len(goals)] ==
                 IF i = 0 THEN 0 ELSE SumHalves[i - 1] + Halves(goals[i])
         IN  Min((SumHalves[Len(goals)] * One) \div (2 * Len(goals)), One)

WeightDifficulty == 6
WeightStyle == 4
WeightPrerequisites == 4
WeightNovelty == 3
WeightGoals == 3

\* the weighted sum with the novelty weight 0.25 for 0.15
WeightedSumHeavy(lesson, prof, hist, completed) ==
      calculate_difficulty_match(lesson.difficulty_level, prof.skill_level) * WeightDifficulty
    + calculate_style_match(lesson, prof.learning_style) * WeightStyle
    + check_prerequisites(Get(lesson, "prerequisites", <<>>), completed) * WeightPrerequisites
    + calculate_novelty_score(lesson.id, hist) * (WeightNovelty + 2)
    + calculate_goal_alignment(lesson, prof.goals) * WeightGoals

\* the weighted sum, before the final min
WeightedSum(lesson, prof, hist, completed) ==
      calculate_difficulty_match(lesson.difficulty_level, prof.skill_level) * WeightDifficulty
    + calculate_style_match(lesson, prof.learning_style) * WeightStyle
    + check_prerequisites(Get(lesson, "prerequisites", <<>>), completed) * WeightPrerequisites
    + calculate_novelty_score(lesson.id, hist) * WeightNovelty
    + calculate_goal_alignment(lesson, prof.goals) * WeightGoals

score_lesson_for_user(lesson, prof, hist, completed) ==
    Min(WeightedSum(lesson, prof, hist, completed), FullScore)

\* 0.3, the minimum threshold
ConfidenceThreshold == (3 * FullScore) \div 10

\* score >= 0.3
EligibleInclusive(score) == score >= ConfidenceThreshold

\* if score > 0.3
Eligible(score) == score > ConfidenceThreshold

generate_recommendation_reasoning(lesson, prof, score) ==
    LET first == IF score > (8 * FullScore) \div 10
                     THEN <<"Highly recommended based on your learning profile">>
                 ELSE IF score > (6 * FullScore) \div 10
                     THEN <<"Good match for your current skill level">>
                 ELSE <<"Suitable for expanding your knowledge">>
        second == IF lesson.difficulty_level = prof.skill_level
                      THEN <<"Matches your current skill level">>
                  ELSE IF lesson.difficulty_level = "intermediate" /\ prof.skill_level = "beginner"
                      THEN <<"Next step in your learning journey">>
                  ELSE <<>>
        third == IF "category" \in DOMAIN lesson /\ InList(lesson.category, prof.goals)
                     THEN <<"Aligns with your learning goals">>
                 ELSE <<>>
    IN  first \o second \o third

\* the LessonRecommendation built for a lesson that cleared the threshold
Recommendation(lesson, prof, score) ==
    [lesson_id |-> lesson.id,
     title |-> lesson.title,
     difficulty_level |-> lesson.difficulty_level,
     estimated_duration |-> lesson.estimated_duration,
     confidence_score |-> score,
     reasoning |-> generate_recommendation_reasoning(lesson, prof, score),
     prerequisites |-> Get(lesson, "prerequisites", <<>>)]

\* lesson['difficulty_level'], lesson['id'], lesson['title'], lesson['estimated_duration']
\* raise KeyError on a lesson without the key
ScoringRaises(lesson) ==
    ~({"difficulty_level", "id"} \subseteq DOMAIN lesson)
BuildingRaises(lesson) ==
    ~({"id", "title", "difficulty_level", "estimated_duration"} \subseteq DOMAIN lesson)

\* an insertion that puts an element before its equals: the sort loses its stability
InsertBeforeEquals(r, sorted) ==
    LET k == Cardinality({i \in DOMAIN sorted :
                              sorted[i].confidence_score > r.confidence_score})
    IN  SubSeq(sorted, 1, k) \o <<r>> \o SubSeq(sorted, k + 1, Len(sorted))

\* list.sort(key=confidence_score, reverse=True): stable, equal keys keep their order
InsertByConfidence(r, sorted) ==
    LET k == Cardinality({i \in DOMAIN sorted :
                              sorted[i].confidence_score >= r.confidence_score})
    IN  SubSeq(sorted, 1, k) \o <<r>> \o SubSeq(sorted, k + 1, Len(sorted))

RECURSIVE SortByConfidence(_)
SortByConfidence(recs) ==
    IF recs = <<>> THEN <<>>
    ELSE InsertByConfidence(recs[Len(recs)], SortByConfidence(SubSeq(recs, 1, Len(recs) - 1)))

\* recommendations[:count + 1]
SliceOneMore(s, n) ==
    IF n + 1 >= 0 THEN SubSeq(s, 1, Min(n + 1, Len(s)))
    ELSE SubSeq(s, 1, Max(Len(s) + n + 1, 0))

\* recommendations[:count]
Slice(s, n) ==
    IF n >= 0 THEN SubSeq(s, 1, Min(n, Len(s)))
    ELSE SubSeq(s, 1, Max(Len(s) + n, 0))

\* a handler that hands back what the loop had built so far
RecommendationsOnErrorPartial(partial) == [result |-> partial, outcome |-> "returned"]

\* except Exception as e: log the error, return []
RecommendationsOnError(partial) == [result |-> <<>>, outcome |-> "returned"]

\* ------------------------------------------------------------- profiles
\* redis GET of a key that is not set
NoProfile == [absent |-> TRUE]

\* a default profile of skill level intermediate
DefaultProfileIntermediate(user_id) ==
    [user_id |-> user_id, learning_style |-> "mixed", skill_level |-> "intermediate",
     preferred_pace |-> "medium", strengths |-> <<>>, weaknesses |-> <<>>, goals |-> <<>>]

DefaultProfile(user_id) ==
    [user_id |-> user_id, learning_style |-> "mixed", skill_level |-> "beginner",
     preferred_pace |-> "medium", strengths |-> <<>>, weaknesses |-> <<>>, goals |-> <<>>]

get_user_profile(user_id, stored) ==
    IF stored # NoProfile THEN stored ELSE DefaultProfile(user_id)

\* ------------------------------------------- the collaborators' reads
\* _get_learning_history, _get_available_lessons, _get_completed_lessons and
\* _get_lesson_performance_history hand back what the store or the catalog
\* holds; _log_adaptation appends the audit record.  Each may fail instead.
get_learning_history(stored) == stored
get_available_lessons(lessons) == lessons
get_completed_lessons(stored) == stored
get_lesson_performance_history(stored) == stored
log_adaptation(log, record) == Append(log, record)

\* ---------------------------------------------------- the inputs drawn
User == "u1"

TextAsl == <<"a", "s", "l">>
GoalSign == <<"A", "S", "L">>
GoalSub == <<"s", "L">>
GoalNone == <<"z">>

Lesson1 == [id |-> "l1", title |-> "t1", difficulty_level |-> "beginner",
            estimated_duration |-> 10, type |-> "visual", prerequisites |-> <<>>,
            tags |-> <<TextAsl>>, category |-> TextAsl]
Lesson2 == [id |-> "l2", title |-> "t2", difficulty_level |-> "beginner",
            estimated_duration |-> 10, type |-> "visual", prerequisites |-> <<>>,
            tags |-> <<TextAsl>>, category |-> TextAsl]
Lesson3 == [id |-> "l3", title |-> "t3", difficulty_level |-> "advanced",
            estimated_duration |-> 30, type |-> "mixed", prerequisites |-> <<"l9", "l8">>,
            tags |-> <<TextAsl>>, category |-> <<"q">>]
\* only the keys the code requires: type, prerequisites, tags, category default
Lesson4 == [id |-> "l4", title |-> "t4", difficulty_level |-> "intermediate",
            estimated_duration |-> 20]
\* a catalog entry without a title: lesson['title'] raises KeyError
Lesson5 == [id |-> "l5", difficulty_level |-> "beginner", estimated_duration |-> 5]
LessonPool == {Lesson1, Lesson2, Lesson3, Lesson4, Lesson5}

RECURSIVE SeqsUpTo(_, _)
SeqsUpTo(S, n) ==
    IF n = 0 THEN {<<>>}
    ELSE LET shorter == SeqsUpTo(S, n - 1)
         IN  shorter \cup {Append(s, x) : s \in shorter, x \in S}
\* catalogs: lesson ids are unique
Catalogs ==
    {c \in SeqsUpTo(LessonPool, MaxCatalog) :
        \A i, j \in DOMAIN c : i # j => c[i].id # c[j].id}

Profile1 == [user_id |-> User, learning_style |-> "visual", skill_level |-> "beginner",
             preferred_pace |-> "slow", strengths |-> <<>>, weaknesses |-> <<>>,
             goals |-> <<GoalSign, GoalNone, GoalNone>>]
Profile2 == [user_id |-> User, learning_style |-> "visual", skill_level |-> "beginner",
             preferred_pace |-> "fast", strengths |-> <<>>, weaknesses |-> <<>>,
             goals |-> <<TextAsl>>]
Profile3 == [user_id |-> User, learning_style |-> "kinesthetic", skill_level |-> "expert",
             preferred_pace |-> "medium", strengths |-> <<>>, weaknesses |-> <<>>,
             goals |-> <<GoalSub>>]
ProfilePool == {NoProfile, Profile1, Profile2, Profile3}

Session(lesson_id) == [lesson_id |-> lesson_id]
\* twelve sessions: l1 has left the last-ten window, l3 is at index 8 of it, l2 at 9
LongHistory ==
    [i \in 1..12 |-> Session(IF i <= 2 THEN "l1" ELSE IF i = 11 THEN "l3" ELSE "l2")]
ShortHistory == <<Session("l1"), Session("l4")>>
\* what the store holds of the user's past: the sessions and the completed lessons
PastPool == {<<<<>>, {}>>, <<ShortHistory, {"l9"}>>, <<LongHistory, {}>>,
             <<LongHistory, {"l9"}>>}
Counts == {-1, 0, 1, 5}

\* ------------------------------------------- get_next_lesson_recommendations
RecIdleLocals ==
    /\ profile = NoProfile /\ history = <<>> /\ available_lessons = <<>>
    /\ recommendations = <<>> /\ idx = 0

RecInit ==
    /\ catalog \in Catalogs
    /\ user_profile \in ProfilePool
    /\ \E past \in PastPool : user_history = past[1] /\ completed_lessons = past[2]
    /\ pc = "idle" /\ req_count \in Counts
    /\ RecIdleLocals
    /\ result = <<>> /\ outcome = "none" /\ failed = FALSE
    /\ calls = 0 /\ prev_result = <<>> /\ prev_failed = FALSE
    /\ dirty_cur = FALSE /\ dirty_prev = FALSE /\ writes = 0

store_vars == <<catalog, user_profile, user_history, completed_lessons>>
prev_vars == <<prev_result, prev_failed, dirty_prev>>
local_vars == <<profile, history, available_lessons, recommendations, idx>>

\* the caller calls with (User, req_count)
RecBegin ==
    /\ pc \in {"idle", "done"} /\ calls < MaxCalls
    /\ pc' = "get_profile"
    /\ profile' = NoProfile /\ history' = <<>> /\ available_lessons' = <<>>
    /\ recommendations' = <<>> /\ idx' = 0
    /\ prev_result' = result /\ prev_failed' = failed
    /\ dirty_prev' = dirty_cur /\ dirty_cur' = FALSE
    /\ result' = <<>> /\ outcome' = "none" /\ failed' = FALSE
    /\ UNCHANGED <<store_vars, req_count, calls, writes, adapt_vars, ext_vars>>

\* a return that also records the recommended lessons in the user's history
RecReturnRecording(recs) ==
    /\ result' = Slice(SortByConfidence(recs), req_count)
    /\ outcome' = "returned" /\ failed' = FALSE
    /\ pc' = "done" /\ calls' = calls + 1
    /\ user_history' = user_history \o
           [i \in DOMAIN recs |-> Session(recs[i].lesson_id)]
    /\ UNCHANGED <<catalog, user_profile, completed_lessons, writes, adapt_vars, ext_vars>>

\* return recommendations[:count] after the sort
RecReturn(recs) ==
    /\ result' = Slice(SortByConfidence(recs), req_count)
    /\ outcome' = "returned" /\ failed' = FALSE
    /\ pc' = "done" /\ calls' = calls + 1
    /\ UNCHANGED <<store_vars, writes, adapt_vars, ext_vars>>

\* except Exception as e: log, return []; recommendations keeps what the loop had built
RecExcept ==
    /\ result' = RecommendationsOnError(recommendations).result
    /\ outcome' = RecommendationsOnError(recommendations).outcome
    /\ failed' = TRUE
    /\ pc' = "done" /\ calls' = calls + 1
    /\ profile' = NoProfile /\ history' = <<>> /\ available_lessons' = <<>> /\ idx' = 0
    /\ UNCHANGED <<store_vars, writes, req_count, prev_vars, dirty_cur, adapt_vars, ext_vars,
                   recommendations>>

RecGetProfile ==
    /\ pc = "get_profile"
    /\ profile' = get_user_profile(User, user_profile)
    /\ pc' = "get_history"
    /\ UNCHANGED <<store_vars, req_count, history, available_lessons, recommendations, idx,
                   result, outcome, failed, calls, prev_vars, dirty_cur, writes,
                   adapt_vars, ext_vars>>

RecGetProfileFails ==
    /\ pc = "get_profile"
    /\ RecExcept

\* the history is a copy made before the latest session was stored
RecGetHistoryStale ==
    /\ pc = "get_history"
    /\ history' = IF user_history = <<>> THEN <<>>
                  ELSE SubSeq(user_history, 1, Len(user_history) - 1)
    /\ pc' = "get_lessons"
    /\ UNCHANGED <<store_vars, req_count, profile, available_lessons, recommendations, idx,
                   result, outcome, failed, calls, prev_vars, dirty_cur, writes,
                   adapt_vars, ext_vars>>

RecGetHistory ==
    /\ pc = "get_history"
    /\ history' = get_learning_history(user_history)
    /\ pc' = "get_lessons"
    /\ UNCHANGED <<store_vars, req_count, profile, available_lessons, recommendations, idx,
                   result, outcome, failed, calls, prev_vars, dirty_cur, writes,
                   adapt_vars, ext_vars>>

RecGetHistoryFails ==
    /\ pc = "get_history"
    /\ RecExcept

\* the loop runs to its next await, or to the return when no lesson is left
RecLoop(lessons, recs, i) ==
    IF i > Len(lessons)
        THEN /\ RecReturn(recs)
             /\ recommendations' = recs /\ idx' = i
        ELSE /\ recommendations' = recs /\ idx' = i /\ pc' = "score"
             /\ UNCHANGED <<store_vars, result, outcome, failed, calls, writes,
                            adapt_vars, ext_vars>>

RecGetLessons ==
    /\ pc = "get_lessons"
    /\ available_lessons' = get_available_lessons(catalog)
    /\ RecLoop(get_available_lessons(catalog), <<>>, 1)
    /\ UNCHANGED <<req_count, profile, history, prev_vars, dirty_cur>>

RecGetLessonsFails ==
    /\ pc = "get_lessons"
    /\ RecExcept

\* one iteration: score the lesson, keep it when it clears the threshold
RecScoreLesson ==
    /\ pc = "score" /\ idx <= Len(available_lessons)
    /\ LET lesson == available_lessons[idx]
           score == score_lesson_for_user(lesson, profile, history,
                                          get_completed_lessons(completed_lessons))
       IN  /\ ~ScoringRaises(lesson)
           /\ IF Eligible(score)
                  THEN /\ ~BuildingRaises(lesson)
                       /\ RecLoop(available_lessons,
                                  Append(recommendations, Recommendation(lesson, profile, score)),
                                  idx + 1)
                  ELSE RecLoop(available_lessons, recommendations, idx + 1)
    /\ UNCHANGED <<req_count, profile, history, available_lessons, prev_vars, dirty_cur>>

\* reading the completed-lesson set fails (it is read when the lesson has prerequisites)
RecCompletedFails ==
    /\ pc = "score" /\ idx <= Len(available_lessons)
    /\ ~ScoringRaises(available_lessons[idx])
    /\ Get(available_lessons[idx], "prerequisites", <<>>) # <<>>
    /\ RecExcept

\* a KeyError on a catalog entry without a required key
RecLessonRaises ==
    /\ pc = "score" /\ idx <= Len(available_lessons)
    /\ LET lesson == available_lessons[idx]
       IN  \/ ScoringRaises(lesson)
           \/ /\ Eligible(score_lesson_for_user(lesson, profile, history,
                                                get_completed_lessons(completed_lessons)))
              /\ BuildingRaises(lesson)
    /\ RecExcept

\* another request stores a session of the user (see _store_session)
StoreSessionWrite ==
    /\ writes < MaxWrites
    /\ user_history' = Append(user_history, Session("l3"))
    /\ writes' = writes + 1
    /\ dirty_cur' = TRUE
    /\ UNCHANGED <<catalog, user_profile, completed_lessons, pc, req_count, local_vars,
                   result, outcome, failed, calls, prev_vars, adapt_vars, ext_vars>>

\* ------------------------------------------------------ the key-value store
\* a second user, whose id holds the separator of the keys
OtherUser == "u1:1"
Users == {User, OtherUser}
\* the characters of a user id
Chars(user_id) == IF user_id = User THEN <<"u", "1">> ELSE <<"u", "1", ":", "1">>

\* str(n) for n >= 0
DigitChar(d) == <<"0", "1", "2", "3", "4", "5", "6", "7", "8", "9">>[d + 1]
RECURSIVE Digits(_)
Digits(n) == IF n < 10 THEN <<DigitChar(n)>>
             ELSE Append(Digits(n \div 10), DigitChar(n % 10))

\* start times are in half seconds: int(start_time.timestamp()) drops the half
Timestamp(start_time) == start_time \div 2

\* a session key without the user id
SessionKeyWithoutUser(user_id, start_time) ==
    <<"learning_session:">> \o Digits(Timestamp(start_time))

\* f"learning_session:{user_id}:{int(start_time.timestamp())}"
SessionKey(user_id, start_time) ==
    <<"learning_session:">> \o Chars(user_id) \o <<":">> \o Digits(Timestamp(start_time))
\* f"user_sessions:{user_id}"
UserSessionsKey(user_id) == <<"user_sessions:">> \o Chars(user_id)
\* f"user_profile:{user_id}"
ProfileKey(user_id) == <<"user_profile:">> \o Chars(user_id)

\* redis SET, GET, LPUSH, LRANGE 0 -1 and LTRIM (an emptied list is removed)
redis_set(strings, key, value) ==
    [k \in DOMAIN strings \cup {key} |-> IF k = key THEN value ELSE strings[k]]
redis_get(strings, key) == IF key \in DOMAIN strings THEN strings[key] ELSE NoProfile
redis_lrange(lists, key) == IF key \in DOMAIN lists THEN lists[key] ELSE <<>>
redis_lpush(lists, key, value) ==
    [k \in DOMAIN lists \cup {key} |-> IF k = key THEN <<value>> \o redis_lrange(lists, key)
                                       ELSE lists[k]]
\* a trim that keeps the entries at the tail of the list
redis_ltrim_tail(lists, key, start, end) ==
    LET old == redis_lrange(lists, key)
        kept == SubSeq(old, Max(1, Len(old) - (end - start)), Len(old))
    IN  IF kept = <<>> THEN [k \in DOMAIN lists \ {key} |-> lists[k]]
        ELSE [k \in DOMAIN lists |-> IF k = key THEN kept ELSE lists[k]]
redis_ltrim(lists, key, start, end) ==
    LET old == redis_lrange(lists, key)
        kept == SubSeq(old, start + 1, Min(end + 1, Len(old)))
    IN  IF kept = <<>> THEN [k \in DOMAIN lists \ {key} |-> lists[k]]
        ELSE [k \in DOMAIN lists |-> IF k = key THEN kept ELSE lists[k]]
\* ltrim(user_sessions_key, 0, 999)
LtrimEnd == 999

\* the LearningSession the endpoint builds; scores in hundredths, times in half seconds
LearningSessionOf(user_id, lesson_id, start_time) ==
    [user_id |-> user_id, lesson_id |-> lesson_id, start_time |-> start_time,
     end_time |-> start_time + 120, accuracy_score |-> 95, completion_percentage |-> 100,
     time_spent |-> 60, attempts |-> 4, difficulty_level |-> "beginner",
     mistakes |-> <<>>, engagement_score |-> 90]
\* session_data, the dict that is dumped under the session key
SessionData(session) ==
    [k \in {"user_id", "lesson_id", "start_time", "end_time", "accuracy_score",
            "completion_percentage", "time_spent", "attempts", "difficulty_level",
            "mistakes", "engagement_score"} |-> session[k]]

\* the records of the keys a user's session list names, oldest push first
ListedRecords(user_id, strings, lists) ==
    LET keys == redis_lrange(lists, UserSessionsKey(user_id))
        present == SelectSeq(keys, LAMBDA k : k \in DOMAIN strings)
    IN  [i \in 1..Len(present) |-> strings[present[Len(present) + 1 - i]]]
InsertByStartTime(rec, sorted) ==
    LET before == SelectSeq(sorted, LAMBDA x : x.start_time <= rec.start_time)
        after == SelectSeq(sorted, LAMBDA x : x.start_time > rec.start_time)
    IN  before \o <<rec>> \o after
\* the sessions left in the order the store returned them
StoreOrder(recs) == recs
RECURSIVE SortByStartTime(_)
SortByStartTime(recs) ==
    IF recs = <<>> THEN <<>>
    ELSE InsertByStartTime(recs[Len(recs)], SortByStartTime(SubSeq(recs, 1, Len(recs) - 1)))
\* what _get_learning_history reads for a user: the listed sessions, start time ascending
HistoryOf(user_id, strings, lists) == SortByStartTime(ListedRecords(user_id, strings, lists))

\* what _update_user_profile stores: the profile, created with the defaults when
\* absent, stamped with the session
UpdatedProfile(stored, session) ==
    LET p == get_user_profile(session.user_id, stored)
    IN  [k \in DOMAIN p \cup {"last_updated"} |->
            IF k = "last_updated" THEN session.start_time ELSE p[k]]

\* ------------------------------------------------- analyze_learning_session
\* the expected-duration provider: seconds, 0 when the lesson has no entry
get_expected_lesson_time(lesson_id, difficulty_level) == IF lesson_id = "l1" THEN 120 ELSE 0
\* what _get_lesson_sessions reads: the user's listed sessions of the lesson
get_lesson_sessions(user_id, lesson_id, strings, lists) ==
    SelectSeq(ListedRecords(user_id, strings, lists), LAMBDA x : x.lesson_id = lesson_id)

\* (accuracies[-1] - accuracies[0]) / len(accuracies) over the sessions by start time
calculate_learning_velocity(sessions) ==
    IF Len(sessions) < 2 THEN 0
    ELSE LET sorted == SortByStartTime(sessions)
         IN  (sorted[Len(sorted)].accuracy_score - sorted[1].accuracy_score) \div Len(sorted)

\* the metrics in hundredths; time_spent is in seconds
calculate_learning_metrics(session, expected_time, lesson_sessions) ==
    [completion_rate |-> session.completion_percentage,
     accuracy_rate |-> session.accuracy_score,
     efficiency |-> (session.completion_percentage * 60) \div Max(session.time_spent, 60),
     engagement_score |-> session.engagement_score,
     time_efficiency |-> IF expected_time # 0
                            THEN (expected_time * 100) \div Max(session.time_spent, 1)
                            ELSE 100,
     learning_velocity |-> calculate_learning_velocity(lesson_sessions),
     attempts_ratio |-> 100 \div Max(session.attempts, 1)]

\* the insights with both bounds of every band taken as inside the message
generate_insights_inclusive(session, metrics) ==
    (IF metrics.accuracy_rate <= 60 THEN <<"review prerequisites">>
     ELSE IF metrics.accuracy_rate >= 90 THEN <<"excellent accuracy">> ELSE <<>>)
    \o (IF metrics.time_efficiency <= 50 THEN <<"extra time is beneficial">>
        ELSE IF metrics.time_efficiency >= 200 THEN <<"progressing quickly">> ELSE <<>>)
    \o (IF metrics.engagement_score <= 50 THEN <<"try shorter sessions">>
        ELSE IF metrics.engagement_score >= 80 THEN <<"high engagement">> ELSE <<>>)
    \o (IF session.attempts >= 3 THEN <<"multiple attempts show persistence">> ELSE <<>>)

generate_insights(session, metrics) ==
    (IF metrics.accuracy_rate < 60 THEN <<"review prerequisites">>
     ELSE IF metrics.accuracy_rate > 90 THEN <<"excellent accuracy">> ELSE <<>>)
    \o (IF metrics.time_efficiency < 50 THEN <<"extra time is beneficial">>
        ELSE IF metrics.time_efficiency > 200 THEN <<"progressing quickly">> ELSE <<>>)
    \o (IF metrics.engagement_score < 50 THEN <<"try shorter sessions">>
        ELSE IF metrics.engagement_score > 80 THEN <<"high engagement">> ELSE <<>>)
    \o (IF session.attempts > 3 THEN <<"multiple attempts show persistence">> ELSE <<>>)

\* get_next_lesson_recommendations as one read of the store: the list it returns
RecommendAtOnce(prof, hist, lessons, completed, count) ==
    LET score(i) == score_lesson_for_user(lessons[i], prof, hist, completed)
        raises == \E i \in DOMAIN lessons :
                      \/ ScoringRaises(lessons[i])
                      \/ Eligible(score(i)) /\ BuildingRaises(lessons[i])
        kept == SelectSeq([i \in DOMAIN lessons |-> i], LAMBDA i : Eligible(score(i)))
    IN  IF raises THEN RecommendationsOnError(<<>>).result
        ELSE Slice(SortByConfidence([k \in DOMAIN kept |->
                       Recommendation(lessons[kept[k]], prof, score(kept[k]))]), count)

Requests == 1..MaxRequests
StartTimes == {2, 3, 4}
AnalyzeLessons == {"l1", "l3"}
AnalyzeCatalogs == {<<Lesson1, Lesson3>>, <<Lesson3, Lesson5>>}
\* count: int = 5
DefaultCount == 5
EmptyStore == [k \in {} |-> NoProfile]
NoSession == [none |-> TRUE]
NoMetrics == [none |-> TRUE]
NoResult == [none |-> TRUE]

\* no session analysis has been requested
AnalyzeIdle ==
    /\ redis_lists = EmptyStore
    /\ an_pc = [r \in Requests |-> "idle"]
    /\ an_session = [r \in Requests |-> NoSession]
    /\ an_trace = [r \in Requests |-> <<>>]
    /\ an_metrics = [r \in Requests |-> NoMetrics]
    /\ an_insights = [r \in Requests |-> <<>>]
    /\ an_ticket = [r \in Requests |-> 0]
    /\ an_result = [r \in Requests |-> NoResult]
    /\ an_outcome = [r \in Requests |-> "none"]
AnalyzeQuiet == redis_strings = EmptyStore /\ AnalyzeIdle

\* what a step of a session analysis leaves alone
an_frame == <<catalog, completed_lessons, pc, req_count, local_vars, result, outcome,
              failed, calls, prev_vars, writes, adapt_vars, pool_vars, fn_vars, svc_vars>>

\* the user's profile and history as the recommendation engine reads them,
\* after a step that left the store as (strings, lists)
StoreView(strings, lists) ==
    /\ user_profile' = redis_get(strings, ProfileKey(User))
    /\ user_history' = HistoryOf(User, strings, lists)
    /\ dirty_cur' = (dirty_cur \/ user_profile' # user_profile \/ user_history' # user_history)

\* the endpoint builds the session and calls
AnalyzeBegin(r) ==
    /\ an_pc[r] = "idle"
    /\ \E u \in Users, l \in AnalyzeLessons, t \in StartTimes :
           an_session' = [an_session EXCEPT ![r] = LearningSessionOf(u, l, t)]
    /\ an_pc' = [an_pc EXCEPT ![r] = "set"]
    /\ UNCHANGED <<redis_strings, redis_lists, an_trace, an_metrics, an_insights, an_ticket,
                   an_result, an_outcome, user_profile, user_history, dirty_cur, an_frame>>

\* a handler that logs the exception and returns
AnalyzeOnErrorSwallow(step) == [result |-> [error |-> step], outcome |-> "returned"]

\* except Exception as e: log, raise
AnalyzeOnError(step) == [result |-> [error |-> step], outcome |-> "raised"]

\* the step raises: nothing of it is written
AnalyzeRaise(r, step) ==
    /\ an_result' = [an_result EXCEPT ![r] = AnalyzeOnError(step).result]
    /\ an_outcome' = [an_outcome EXCEPT ![r] = AnalyzeOnError(step).outcome]
    /\ an_pc' = [an_pc EXCEPT ![r] = "done"]
    /\ UNCHANGED <<redis_strings, redis_lists, an_session, an_metrics, an_insights,
                   an_ticket, user_profile, user_history, dirty_cur, an_frame>>

Started(r, step) == an_trace' = [an_trace EXCEPT ![r] = Append(@, step)]

\* _store_session: SET of the session record
StoreSet(r) ==
    /\ an_pc[r] = "set"
    /\ Started(r, "store")
    /\ redis_strings' = redis_set(redis_strings,
                                  SessionKey(an_session[r].user_id, an_session[r].start_time),
                                  SessionData(an_session[r]))
    /\ StoreView(redis_strings', redis_lists)
    /\ an_pc' = [an_pc EXCEPT ![r] = "lpush"]
    /\ UNCHANGED <<redis_lists, an_session, an_metrics, an_insights, an_ticket, an_result,
                   an_outcome, an_frame>>

StoreSetFails(r) ==
    /\ an_pc[r] = "set"
    /\ Started(r, "store")
    /\ AnalyzeRaise(r, "store")

\* _store_session: LPUSH of the session key on the user's list
StoreLpush(r) ==
    /\ an_pc[r] = "lpush"
    /\ redis_lists' = redis_lpush(redis_lists, UserSessionsKey(an_session[r].user_id),
                                  SessionKey(an_session[r].user_id, an_session[r].start_time))
    /\ StoreView(redis_strings, redis_lists')
    /\ an_pc' = [an_pc EXCEPT ![r] = "ltrim"]
    /\ UNCHANGED <<redis_strings, an_session, an_trace, an_metrics, an_insights, an_ticket,
                   an_result, an_outcome, an_frame>>

StoreLpushFails(r) ==
    /\ an_pc[r] = "lpush"
    /\ AnalyzeRaise(r, "store")
    /\ UNCHANGED an_trace

\* _store_session: LTRIM of the user's list to its first 1000 entries
StoreLtrim(r) ==
    /\ an_pc[r] = "ltrim"
    /\ redis_lists' = redis_ltrim(redis_lists, UserSessionsKey(an_session[r].user_id),
                                  0, LtrimEnd)
    /\ StoreView(redis_strings, redis_lists')
    /\ an_pc' = [an_pc EXCEPT ![r] = "update_profile"]
    /\ UNCHANGED <<redis_strings, an_session, an_trace, an_metrics, an_insights, an_ticket,
                   an_result, an_outcome, an_frame>>

StoreLtrimFails(r) ==
    /\ an_pc[r] = "ltrim"
    /\ AnalyzeRaise(r, "store")
    /\ UNCHANGED an_trace

\* _update_user_profile: the profile key is read and written back
UpdateProfile(r) ==
    /\ an_pc[r] = "update_profile"
    /\ Started(r, "update_profile")
    /\ redis_strings' =
           redis_set(redis_strings, ProfileKey(an_session[r].user_id),
                     UpdatedProfile(redis_get(redis_strings, ProfileKey(an_session[r].user_id)),
                                    an_session[r]))
    /\ StoreView(redis_strings', redis_lists)
    /\ an_pc' = [an_pc EXCEPT ![r] = "metrics"]
    /\ UNCHANGED <<redis_lists, an_session, an_metrics, an_insights, an_ticket, an_result,
                   an_outcome, an_frame>>

UpdateProfileFails(r) ==
    /\ an_pc[r] = "update_profile"
    /\ Started(r, "update_profile")
    /\ AnalyzeRaise(r, "update_profile")

\* _calculate_learning_metrics, with its two reads
Metrics(r) ==
    /\ an_pc[r] = "metrics"
    /\ Started(r, "metrics")
    /\ an_metrics' = [an_metrics EXCEPT ![r] =
           calculate_learning_metrics(
               an_session[r],
               get_expected_lesson_time(an_session[r].lesson_id,
                                        an_session[r].difficulty_level),
               get_lesson_sessions(an_session[r].user_id, an_session[r].lesson_id,
                                   redis_strings, redis_lists))]
    /\ an_pc' = [an_pc EXCEPT ![r] = "insights"]
    /\ UNCHANGED <<redis_strings, redis_lists, an_session, an_insights, an_ticket, an_result,
                   an_outcome, user_profile, user_history, dirty_cur, an_frame>>

MetricsFails(r) ==
    /\ an_pc[r] = "metrics"
    /\ Started(r, "metrics")
    /\ AnalyzeRaise(r, "metrics")

\* the recommendation calls of the requests are taken one after the other
RecommendFree ==
    /\ pc \in {"idle", "done"}
    /\ \A q \in Requests : ~(an_pc[q] = "recommend" /\ an_session[q].user_id = User)

\* _generate_insights, then the result dict is built up to the recommendation call
Insights(r) ==
    /\ an_pc[r] = "insights"
    /\ an_session[r].user_id = User => RecommendFree
    /\ Started(r, "insights")
    /\ an_insights' = [an_insights EXCEPT ![r] = generate_insights(an_session[r], an_metrics[r])]
    /\ an_ticket' = [an_ticket EXCEPT ![r] = calls]
    /\ an_pc' = [an_pc EXCEPT ![r] = "recommend"]
    /\ UNCHANGED <<redis_strings, redis_lists, an_session, an_metrics, an_result,
                   an_outcome, user_profile, user_history, dirty_cur, an_frame>>

\* f"{user_id}_{lesson_id}_{int(start_time.timestamp())}"
SessionId(session) ==
    Chars(session.user_id) \o <<"_", session.lesson_id, "_">> \o Digits(Timestamp(session.start_time))

AnalysisResult(r, recs) ==
    [session_id |-> SessionId(an_session[r]), metrics |-> an_metrics[r],
     insights |-> an_insights[r], recommendations |-> recs]

AnalyzeReturns(r, recs) ==
    /\ Started(r, "recommend")
    /\ an_result' = [an_result EXCEPT ![r] = AnalysisResult(r, recs)]
    /\ an_outcome' = [an_outcome EXCEPT ![r] = "returned"]
    /\ an_pc' = [an_pc EXCEPT ![r] = "done"]
    /\ UNCHANGED <<redis_strings, redis_lists, an_session, an_metrics, an_insights,
                   an_ticket, user_profile, user_history, dirty_cur, an_frame>>

\* get_next_lesson_recommendations(session.user_id) begins for the request of User
RecommendBegin ==
    /\ \E r \in Requests : /\ an_pc[r] = "recommend" /\ an_session[r].user_id = User
                           /\ an_ticket[r] = calls
    /\ RecBegin

\* its list is returned in the result
AnalyzeReturn(r) ==
    /\ an_pc[r] = "recommend" /\ an_session[r].user_id = User
    /\ pc = "done" /\ calls = an_ticket[r] + 1
    /\ AnalyzeReturns(r, result)

\* the recommendation call of a request of the other user, as one read
AnalyzeReturnOther(r) ==
    /\ an_pc[r] = "recommend" /\ an_session[r].user_id # User
    /\ \/ AnalyzeReturns(r, RecommendAtOnce(
               get_user_profile(OtherUser, redis_get(redis_strings, ProfileKey(OtherUser))),
               HistoryOf(OtherUser, redis_strings, redis_lists), catalog, {}, DefaultCount))
       \/ AnalyzeReturns(r, RecommendationsOnError(<<>>).result)

AnalyzeInit ==
    /\ redis_strings \in {EmptyStore, redis_set(EmptyStore, ProfileKey(User), Profile1)}
    /\ AnalyzeIdle
    /\ catalog \in AnalyzeCatalogs
    /\ user_profile = redis_get(redis_strings, ProfileKey(User))
    /\ user_history = <<>> /\ completed_lessons = {}
    /\ pc = "idle" /\ req_count = DefaultCount
    /\ RecIdleLocals
    /\ result = <<>> /\ outcome = "none" /\ failed = FALSE
    /\ calls = 0 /\ prev_result = <<>> /\ prev_failed = FALSE
    /\ dirty_cur = FALSE /\ dirty_prev = FALSE /\ writes = 0

\* the keys of earlier sessions of the user, most recent push first, one short
\* of the length the list is trimmed to
OlderKeys == [i \in 1..LtrimEnd |-> SessionKey(User, 2 * (LtrimEnd + 10 - i))]

\* the store before concurrent _store_session calls: the user's list is empty
\* or names the earlier sessions
StoreInit ==
    /\ redis_strings = EmptyStore
    /\ redis_lists \in {EmptyStore, [k \in {UserSessionsKey(User)} |-> OlderKeys]}
    /\ an_pc = [r \in Requests |-> "idle"]
    /\ an_session = [r \in Requests |-> NoSession]
    /\ an_trace = [r \in Requests |-> <<>>]
    /\ an_metrics = [r \in Requests |-> NoMetrics]
    /\ an_insights = [r \in Requests |-> <<>>]
    /\ an_ticket = [r \in Requests |-> 0]
    /\ an_result = [r \in Requests |-> NoResult]
    /\ an_outcome = [r \in Requests |-> "none"]
    /\ catalog \in AnalyzeCatalogs
    /\ user_profile = NoProfile
    /\ user_history = <<>> /\ completed_lessons = {}
    /\ pc = "idle" /\ req_count = DefaultCount
    /\ RecIdleLocals
    /\ result = <<>> /\ outcome = "none" /\ failed = FALSE
    /\ calls = 0 /\ prev_result = <<>> /\ prev_failed = FALSE
    /\ dirty_cur = FALSE /\ dirty_prev = FALSE /\ writes = 0

\* --------------------------------------------------- adapt_lesson_difficulty
Lesson == "l1"

\* a sample in hundredths; a key the caller left out is absent from the dict
PerfValues(key) ==
    CASE key = "accuracy" -> {40, 50, 70, 90, 95}
      [] key = "speed" -> {150, 160}
      [] key = "engagement" -> {30, 40}
Samples ==
    UNION {{s \in [K -> {30, 40, 50, 70, 90, 95, 150, 160}] :
                \A k \in K : s[k] \in PerfValues(k)} :
           K \in SUBSET {"accuracy", "speed", "engagement"}}

\* current_performance.get('accuracy', 0.0), .get('speed', 1.0), .get('engagement', 0.5)
current_accuracy(perf) == Get(perf, "accuracy", 0)
current_speed(perf) == Get(perf, "speed", 100)
current_engagement(perf) == Get(perf, "engagement", 50)

\* the decision with accuracy <= 0.5 for accuracy < 0.5
DecideAdaptationInclusive(perf) ==
    IF current_accuracy(perf) <= 50 /\ current_engagement(perf) < 40
        THEN "decrease_difficulty"
    ELSE IF current_accuracy(perf) > 90 /\ current_speed(perf) > 150
        THEN "increase_difficulty"
    ELSE "None"

\* adaptation_type after the if / elif; "None" when no adaptation is needed
DecideAdaptation(perf) ==
    IF current_accuracy(perf) < 50 /\ current_engagement(perf) < 40
        THEN "decrease_difficulty"
    ELSE IF current_accuracy(perf) > 90 /\ current_speed(perf) > 150
        THEN "increase_difficulty"
    ELSE "None"

\* the bundles with the hint frequencies exchanged
AdaptationParametersSwapped(type, perf, hist) ==
    IF type = "decrease_difficulty"
        THEN [hint_frequency |-> "reduced", time_pressure |-> "reduced",
              complexity |-> "simplified", examples |-> "more_provided",
              reasoning |-> "Reducing difficulty to improve understanding and engagement"]
    ELSE IF type = "increase_difficulty"
        THEN [hint_frequency |-> "increased", time_pressure |-> "increased",
              complexity |-> "enhanced", bonus_challenges |-> "enabled",
              reasoning |-> "Increasing difficulty to maintain engagement and challenge"]
    ELSE [none |-> TRUE]

generate_adaptation_parameters(type, perf, hist) ==
    IF type = "decrease_difficulty"
        THEN [hint_frequency |-> "increased", time_pressure |-> "reduced",
              complexity |-> "simplified", examples |-> "more_provided",
              reasoning |-> "Reducing difficulty to improve understanding and engagement"]
    ELSE IF type = "increase_difficulty"
        THEN [hint_frequency |-> "reduced", time_pressure |-> "increased",
              complexity |-> "enhanced", bonus_challenges |-> "enabled",
              reasoning |-> "Increasing difficulty to maintain engagement and challenge"]
    ELSE [none |-> TRUE]

\* a handler that lets the exception out
AdaptOnErrorReraise(e) == [result |-> [adapted |-> FALSE], outcome |-> "raised"]

\* except Exception as e: log, return {'adapted': False, 'error': str(e)}
AdaptOnError(e) == [result |-> [adapted |-> FALSE, error |-> e], outcome |-> "returned"]

\* the audit record _log_adaptation writes
AuditRecord(user_id, lesson_id, type, params) ==
    [user_id |-> user_id, lesson_id |-> lesson_id, adaptation_type |-> type,
     parameters |-> params]

NoSample == [none |-> TRUE]
NoPrev == [sample |-> NoSample, stored |-> <<>>, decision |-> [adapted |-> FALSE],
           error |-> FALSE]

AdaptInit ==
    /\ a_pc = "idle" /\ perf_history = <<>> /\ adaptation_log = <<>>
    /\ current_performance = NoSample /\ a_history = <<>> /\ adaptation_type = "None"
    /\ adaptation = [none |-> TRUE] /\ a_result = [adapted |-> FALSE] /\ a_outcome = "none"
    /\ history_failed = FALSE /\ log_failed = FALSE /\ a_calls = 0 /\ a_prev = NoPrev

\* what the caller is told of the decision
Decision(res) ==
    IF res.adapted THEN [adapted |-> TRUE, adaptation_type |-> res.adaptation_type]
    ELSE [adapted |-> FALSE]

\* the endpoint calls with the sample
AdaptBegin ==
    /\ a_pc \in {"idle", "done"} /\ a_calls < MaxAdaptCalls
    /\ \E s \in Samples : current_performance' = s
    /\ a_pc' = "get_history"
    /\ a_prev' = IF a_calls = 0 THEN NoPrev
                 ELSE [sample |-> current_performance, stored |-> a_history,
                       decision |-> Decision(a_result),
                       error |-> history_failed \/ log_failed]
    /\ a_history' = <<>> /\ adaptation_type' = "None" /\ adaptation' = [none |-> TRUE]
    /\ a_result' = [adapted |-> FALSE] /\ a_outcome' = "none"
    /\ history_failed' = FALSE /\ log_failed' = FALSE
    /\ UNCHANGED <<perf_history, adaptation_log, a_calls, rec_vars, ext_vars>>

AdaptExcept(e) ==
    /\ a_result' = AdaptOnError(e).result
    /\ a_outcome' = AdaptOnError(e).outcome
    /\ a_pc' = "done" /\ a_calls' = a_calls + 1
    /\ UNCHANGED <<perf_history, adaptation_log, current_performance, a_prev, rec_vars, ext_vars>>

\* lines 322-354 for a decision that is already taken
AdaptAfterHistory(type) ==
    /\ adaptation_type' = type
    /\ IF type # "None"
           THEN /\ adaptation' =
                       generate_adaptation_parameters(type, current_performance, a_history')
                /\ a_pc' = "log"
                /\ UNCHANGED <<a_result, a_outcome, a_calls>>
           ELSE /\ a_result' = [adapted |-> FALSE]
                /\ a_outcome' = "returned"
                /\ a_pc' = "done" /\ a_calls' = a_calls + 1
                /\ UNCHANGED adaptation
    /\ UNCHANGED <<perf_history, adaptation_log, current_performance, history_failed,
                   log_failed, a_prev, rec_vars, ext_vars>>

\* the history gates the decision: no adaptation before a first stored sample
AdaptGetHistoryGated ==
    /\ a_pc = "get_history"
    /\ a_history' = get_lesson_performance_history(perf_history)
    /\ AdaptAfterHistory(IF perf_history = <<>> THEN "None"
                         ELSE DecideAdaptation(current_performance))

\* the history is read, then the sample decides
AdaptGetHistory ==
    /\ a_pc = "get_history"
    /\ a_history' = get_lesson_performance_history(perf_history)
    /\ AdaptAfterHistory(DecideAdaptation(current_performance))

AdaptGetHistoryFails ==
    /\ a_pc = "get_history"
    /\ AdaptExcept("history")
    /\ history_failed' = TRUE
    /\ UNCHANGED <<a_history, adaptation_type, adaptation, log_failed>>

\* the decision is recorded, then returned
AdaptLog ==
    /\ a_pc = "log"
    /\ adaptation_log' = log_adaptation(adaptation_log,
                                        AuditRecord(User, Lesson, adaptation_type, adaptation))
    /\ a_result' = [adapted |-> TRUE, adaptation_type |-> adaptation_type,
                    parameters |-> adaptation,
                    reasoning |-> Get(adaptation, "reasoning", "")]
    /\ a_outcome' = "returned"
    /\ a_pc' = "done" /\ a_calls' = a_calls + 1
    /\ UNCHANGED <<perf_history, current_performance, a_history, adaptation_type, adaptation,
                   history_failed, log_failed, a_prev, rec_vars, ext_vars>>

\* the store fails while the decision is recorded
AdaptLogFails ==
    /\ a_pc = "log"
    /\ AdaptExcept("log")
    /\ log_failed' = TRUE
    /\ UNCHANGED <<a_history, adaptation_type, adaptation, history_failed>>

\* another request adds a sample to the stored performance history
PerfHistoryWrite ==
    /\ Len(perf_history) < MaxPerfHistory
    /\ perf_history' = Append(perf_history, [accuracy |-> 70])
    /\ UNCHANGED <<a_pc, adaptation_log, current_performance, a_history, adaptation_type,
                   adaptation, a_result, a_outcome, history_failed, log_failed, a_calls,
                   a_prev, rec_vars, ext_vars>>

\* no recommendation call is in progress
RecQuiet ==
    /\ catalog = <<>> /\ user_profile = NoProfile /\ user_history = <<>>
    /\ completed_lessons = {}
    /\ pc = "idle" /\ req_count = 0
    /\ RecIdleLocals
    /\ result = <<>> /\ outcome = "none" /\ failed = FALSE
    /\ calls = 0 /\ prev_result = <<>> /\ prev_failed = FALSE
    /\ dirty_cur = FALSE /\ dirty_prev = FALSE /\ writes = 0

\* ------------------------------------------------------- run_in_executor
\* ThreadPoolExecutor(max_workers=2), the executor of the service
ExecutorWorkers == 2
\* the workers of the event loop's default executor: min(32, cpu_count + 4)
DefaultExecutorWorkers == 5
\* every _redis_* helper calls loop.run_in_executor(None, ...)
ExecutorArgument == "None"
Workers(executor) == IF executor = "None" THEN DefaultExecutorWorkers ELSE ExecutorWorkers

PoolRequests == 1..MaxPoolRequests
Running == {r \in PoolRequests : op_state[r] = "running"}

PoolQuiet ==
    /\ op_state = [r \in PoolRequests |-> "idle"]
    /\ ops_done = [r \in PoolRequests |-> 0]

pool_frame == <<rec_vars, adapt_vars, analyze_vars, fn_vars, svc_vars>>

\* a request awaits a _redis_* helper: the operation is handed to the executor
Submit(r) ==
    /\ op_state[r] = "idle" /\ ops_done[r] < MaxOps
    /\ op_state' = [op_state EXCEPT ![r] = "queued"]
    /\ UNCHANGED <<ops_done, pool_frame>>

\* a free worker thread of that executor takes the operation to the store
Start(r) ==
    /\ op_state[r] = "queued"
    /\ Cardinality(Running) < Workers(ExecutorArgument)
    /\ op_state' = [op_state EXCEPT ![r] = "running"]
    /\ UNCHANGED <<ops_done, pool_frame>>

\* the store answers and the request goes on
Complete(r) ==
    /\ op_state[r] = "running"
    /\ op_state' = [op_state EXCEPT ![r] = "idle"]
    /\ ops_done' = [ops_done EXCEPT ![r] = @ + 1]
    /\ UNCHANGED pool_frame

\* ------------------------------------ the scorer functions and the analytics
\* str.replace('d', '')
RemoveD(chars) == SelectSeq(chars, LAMBDA c : c # "d")
IsDigit(c) == c \in {"0", "1", "2", "3", "4", "5", "6", "7", "8", "9"}
DigitValue(c) == CHOOSE d \in 0..9 : DigitChar(d) = c
\* str.strip() of blanks
RECURSIVE Strip(_)
Strip(chars) ==
    IF chars = <<>> THEN <<>>
    ELSE IF chars[1] = " " THEN Strip(Tail(chars))
    ELSE IF chars[Len(chars)] = " " THEN Strip(SubSeq(chars, 1, Len(chars) - 1))
    ELSE chars
RECURSIVE DigitsValue(_)
DigitsValue(digits) ==
    IF digits = <<>> THEN 0
    ELSE 10 * DigitsValue(SubSeq(digits, 1, Len(digits) - 1)) + DigitValue(digits[Len(digits)])
\* int(text): blanks around, a sign, digits with single underscores between them;
\* anything else is a ValueError
ParseInt(chars) ==
    LET stripped == Strip(chars)
        signed == stripped # <<>> /\ stripped[1] \in {"+", "-"}
        body == IF signed THEN Tail(stripped) ELSE stripped
        wellformed ==
            /\ body # <<>>
            /\ \A i \in DOMAIN body : IsDigit(body[i]) \/ body[i] = "_"
            /\ IsDigit(body[1]) /\ IsDigit(body[Len(body)])
            /\ \A i \in 1..(Len(body) - 1) : ~(body[i] = "_" /\ body[i + 1] = "_")
        magnitude == DigitsValue(SelectSeq(body, LAMBDA c : c # "_"))
    IN  IF ~wellformed THEN [ok |-> FALSE]
        ELSE [ok |-> TRUE,
              value |-> IF signed /\ stripped[1] = "-" THEN 0 - magnitude ELSE magnitude]

\* what _get_sessions_in_timeframe reads: the sessions that started within the days
get_sessions_in_timeframe(stored, days) == SelectSeq(stored, LAMBDA x : x.age_days <= days)

\* get_learning_analytics up to the return
get_learning_analytics(timeframe, stored) ==
    LET days == ParseInt(RemoveD(timeframe))
        sessions == get_sessions_in_timeframe(stored, days.value)
    IN  IF ~days.ok THEN [error |-> "invalid literal for int()"]
        ELSE IF sessions = <<>>
            THEN [error |-> "No learning data available for the specified timeframe"]
        ELSE [total_sessions |-> Len(sessions)]

Timeframes ==
    {<<"7", "d">>, <<"3", "0", "d">>, <<"7">>, <<"d", "7">>, <<"1", "d", "0">>,
     <<"7", "d", "d">>, <<>>, <<"d">>, <<"x">>, <<"7", "d", "a", "y", "s">>,
     <<"-", "7", "d">>, <<"+", "7", "d">>, <<" ", "7", "d">>, <<"1", "_", "0", "d">>,
     <<"7", ".", "5", "d">>, <<"_", "7", "d">>, <<"7", " ", "d">>, <<"7", "d", " ">>}
StoredSessions == {<<>>, <<[age_days |-> 1], [age_days |-> 8], [age_days |-> 20]>>}

HistoryLessons == {"l1", "l2"}
NoveltyInputs ==
    {[fn |-> "novelty", lesson_id |-> "l1", history |-> [i \in DOMAIN h |-> Session(h[i])]] :
        h \in SeqsUpTo(HistoryLessons, MaxHistoryLen)}
Difficulties == {"beginner", "intermediate", "advanced", "expert", "Beginner"}
DifficultyInputs ==
    {[fn |-> "difficulty", lesson_difficulty |-> l, user_skill |-> u] :
        l \in Difficulties, u \in Difficulties}
AnalyticsInputs ==
    {[fn |-> "analytics", timeframe |-> t, stored |-> st] :
        t \in Timeframes, st \in StoredSessions}

\* metrics in hundredths on and next to every threshold, attempts around 3
InsightsInputs ==
    {[fn |-> "insights", attempts |-> at,
      metrics |-> [accuracy_rate |-> a, time_efficiency |-> t, engagement_score |-> e]] :
        at \in {3, 4}, a \in {59, 60, 90, 91}, t \in {49, 50, 200, 201},
        e \in {49, 50, 80, 81}}
\* up to three sessions of one lesson in any store order, with distinct start
\* times; the accuracies (hundredths) make every quotient exact
VelocityStarts == {2, 4, 6}
VelocityAccuracies == {30, 60, 90}
VelocityInputs ==
    {[fn |-> "velocity", sessions |-> ss] :
        ss \in {q \in SeqsUpTo([start_time : VelocityStarts,
                                accuracy_score : VelocityAccuracies], 3) :
                   \A i, j \in DOMAIN q : i # j => q[i].start_time # q[j].start_time}}
\* a stored list, most recent push first, and the limit of the request
StoredLists == {<<>>, <<"e3">>, <<"e3", "e2">>, <<"e3", "e2", "e1">>}
Limits == {-1, 0, 1, 2, 5}
LimitInputs ==
    {[fn |-> f, entries |-> l, limit |-> n] :
        f \in {"session_results", "transcription_history"}, l \in StoredLists, n \in Limits}

NoInput == [fn |-> "none"]
FnQuiet == fn_in = NoInput /\ fn_out = NoResult
FnInit ==
    /\ fn_in \in NoveltyInputs \cup DifficultyInputs \cup AnalyticsInputs
                \cup InsightsInputs \cup VelocityInputs \cup LimitInputs
    /\ fn_out = NoResult

fn_frame == <<rec_vars, adapt_vars, analyze_vars, pool_vars, fn_in, svc_vars>>

ApplyNovelty ==
    /\ fn_in.fn = "novelty" /\ fn_out = NoResult
    /\ fn_out' = [value |-> calculate_novelty_score(fn_in.lesson_id, fn_in.history)]
    /\ UNCHANGED fn_frame

ApplyDifficultyMatch ==
    /\ fn_in.fn = "difficulty" /\ fn_out = NoResult
    /\ fn_out' = [value |-> calculate_difficulty_match(fn_in.lesson_difficulty,
                                                       fn_in.user_skill)]
    /\ UNCHANGED fn_frame

\* the endpoint returns what the service returns
AnalyticsCall ==
    /\ fn_in.fn = "analytics" /\ fn_out = NoResult
    /\ fn_out' = get_learning_analytics(fn_in.timeframe, fn_in.stored)
    /\ UNCHANGED fn_frame

\* the store fails in _get_sessions_in_timeframe, after the parse
AnalyticsReadFails ==
    /\ fn_in.fn = "analytics" /\ fn_out = NoResult
    /\ ParseInt(RemoveD(fn_in.timeframe)).ok
    /\ fn_out' = [error |-> "store"]
    /\ UNCHANGED fn_frame

\* _generate_insights on a session with the given attempts and metrics
ApplyInsights ==
    /\ fn_in.fn = "insights" /\ fn_out = NoResult
    /\ fn_out' = [value |-> generate_insights([attempts |-> fn_in.attempts], fn_in.metrics)]
    /\ UNCHANGED fn_frame

\* _calculate_learning_velocity on the sessions _get_lesson_sessions returned
ApplyVelocity ==
    /\ fn_in.fn = "velocity" /\ fn_out = NoResult
    /\ fn_out' = [value |-> calculate_learning_velocity(fn_in.sessions)]
    /\ UNCHANGED fn_frame

\* LRANGE key start end of the store: negative indexes count from the tail, the
\* range is clipped to the list, an empty range gives the empty list
lrange(list, start, end) ==
    LET n == Len(list)
        from == IF start < 0 THEN (IF n + start < 0 THEN 0 ELSE n + start) ELSE start
        to == IF end < 0 THEN n + end ELSE IF end >= n THEN n - 1 ELSE end
    IN  IF from > to \/ from >= n THEN <<>> ELSE SubSeq(list, from + 1, to + 1)

\* the sign service's read of results:{session_id}
get_session_results(stored, limit) == lrange(stored, 0, limit - 1)
\* the speech service's read of transcription_history:{user_id}
get_transcription_history(stored, limit) == lrange(stored, 0, limit - 1)

GetSessionResults ==
    /\ fn_in.fn = "session_results" /\ fn_out = NoResult
    /\ fn_out' = [value |-> get_session_results(fn_in.entries, fn_in.limit)]
    /\ UNCHANGED fn_frame

GetTranscriptionHistory ==
    /\ fn_in.fn = "transcription_history" /\ fn_out = NoResult
    /\ fn_out' = [value |-> get_transcription_history(fn_in.entries, fn_in.limit)]
    /\ UNCHANGED fn_frame

\* ------------------------------------------------ sign-recognition sessions
SignRequests == 1..MaxSignRequests
\* confidence_threshold: float = 0.8, in hundredths
SignConfidenceThreshold == 80
\* get_session_results(session_id) in end_session: limit: int = 100
DefaultResultsLimit == 100
SessionConfig == [user_id |-> User, confidence_threshold |-> SignConfidenceThreshold]
\* f"session_{config.user_id}_{int(datetime.now().timestamp())}"
SignSessionId(user_id, second) == <<"session_", user_id, "_", second>>
\* an id no session was started with
UnknownId == <<"session_", User, "_", -1>>
NoId == <<"session_", "", "_", -1>>
\* a frame's result: none, or a gesture with this confidence in hundredths
Confidences == {0, 70, 80, 90}
IdleRequest == [op |-> "none", pc |-> "idle", id |-> NoId, confidence |-> 0,
                total_gestures |-> 0, outcome |-> "none"]

SignQuiet ==
    /\ active_sessions = [k \in {} |-> SessionConfig]
    /\ ACTIVE_SESSIONS = 0
    /\ sign_strings = {}
    /\ sign_lists = [k \in {} |-> <<>>]
    /\ now = 0
    /\ sign_req = [r \in SignRequests |-> IdleRequest]

sign_frame == <<rec_vars, adapt_vars, analyze_vars, pool_vars, fn_vars, speech_vars>>

SignStep(r, pc_next) == sign_req' = [sign_req EXCEPT ![r].pc = pc_next]
SignFinish(r, how) == sign_req' = [sign_req EXCEPT ![r].pc = "done", ![r].outcome = how]

\* start_session up to its await: the id is built from the user and the second,
\* the config is put under it and the gauge is incremented
StartSession(r) ==
    /\ sign_req[r].pc = "idle"
    /\ LET session_id == SignSessionId(User, now)
       IN  /\ active_sessions' = [k \in DOMAIN active_sessions \cup {session_id} |->
                                     IF k = session_id THEN SessionConfig
                                     ELSE active_sessions[k]]
           /\ sign_req' = [sign_req EXCEPT ![r] = [IdleRequest EXCEPT !.op = "start",
                                                   !.pc = "set", !.id = session_id]]
    /\ ACTIVE_SESSIONS' = ACTIVE_SESSIONS + 1
    /\ UNCHANGED <<sign_strings, sign_lists, now, sign_frame>>

\* SET session:{session_id} with ex = max_session_duration; the id is returned
StartSet(r) ==
    /\ sign_req[r].pc = "set"
    /\ sign_strings' = sign_strings \cup {sign_req[r].id}
    /\ SignFinish(r, "session_id")
    /\ UNCHANGED <<active_sessions, ACTIVE_SESSIONS, sign_lists, now, sign_frame>>

\* the SET fails: start_session raises with the session registered
StartSetFails(r) ==
    /\ sign_req[r].pc = "set"
    /\ SignFinish(r, "raised store error")
    /\ UNCHANGED <<active_sessions, ACTIVE_SESSIONS, sign_strings, sign_lists, now, sign_frame>>

\* process_frame on an id that is not in active_sessions: None
FrameUnknown(r) ==
    /\ sign_req[r].pc = "idle"
    /\ \E session_id \in (DOMAIN active_sessions \cup sign_strings \cup {UnknownId}) :
           /\ session_id \notin DOMAIN active_sessions
           /\ sign_req' = [sign_req EXCEPT ![r] = [IdleRequest EXCEPT !.op = "frame",
                                                   !.pc = "done", !.id = session_id,
                                                   !.outcome = "None"]]
    /\ UNCHANGED <<active_sessions, ACTIVE_SESSIONS, sign_strings, sign_lists, now, sign_frame>>

\* process_frame on an active session with no hand in the frame: None
FrameNoHands(r) ==
    /\ sign_req[r].pc = "idle"
    /\ \E session_id \in DOMAIN active_sessions :
           sign_req' = [sign_req EXCEPT ![r] = [IdleRequest EXCEPT !.op = "frame",
                                                !.pc = "done", !.id = session_id,
                                                !.outcome = "None"]]
    /\ UNCHANGED <<active_sessions, ACTIVE_SESSIONS, sign_strings, sign_lists, now, sign_frame>>

\* process_frame on an active session, up to the await of the inference
FrameBegin(r) ==
    /\ sign_req[r].pc = "idle"
    /\ \E session_id \in DOMAIN active_sessions :
           sign_req' = [sign_req EXCEPT ![r] = [IdleRequest EXCEPT !.op = "frame",
                                                !.pc = "infer", !.id = session_id]]
    /\ UNCHANGED <<active_sessions, ACTIVE_SESSIONS, sign_strings, sign_lists, now, sign_frame>>

\* the result of a frame is stored exactly when its confidence reaches the threshold
StoresResult(confidence, config) == confidence >= config.confidence_threshold
\* a frame stored whenever it has a result
StoresResultAlways(confidence, config) == confidence > 0

\* the inference returns: without a result the frame returns None; the threshold
\* is read from active_sessions (KeyError, caught, when the session was ended
\* meanwhile); the result is handed to _store_result or returned
FrameInfer(r) ==
    /\ sign_req[r].pc = "infer"
    /\ \E confidence \in Confidences :
           IF confidence = 0 \/ sign_req[r].id \notin DOMAIN active_sessions
           THEN SignFinish(r, "None")
           ELSE IF StoresResult(confidence, active_sessions[sign_req[r].id])
           THEN sign_req' = [sign_req EXCEPT ![r].pc = "lpush", ![r].confidence = confidence]
           ELSE sign_req' = [sign_req EXCEPT ![r].pc = "done", ![r].confidence = confidence,
                                             ![r].outcome = "result"]
    /\ UNCHANGED <<active_sessions, ACTIVE_SESSIONS, sign_strings, sign_lists, now, sign_frame>>

\* the inference raises: the exception is caught, None
FrameInferFails(r) ==
    /\ sign_req[r].pc = "infer"
    /\ SignFinish(r, "None")
    /\ UNCHANGED <<active_sessions, ACTIVE_SESSIONS, sign_strings, sign_lists, now, sign_frame>>

\* _store_result: LPUSH on results:{session_id}, executed by the store
FrameLpush(r) ==
    /\ sign_req[r].pc = "lpush"
    /\ LET key == sign_req[r].id
           old == IF key \in DOMAIN sign_lists THEN sign_lists[key] ELSE <<>>
       IN  sign_lists' = [k \in DOMAIN sign_lists \cup {key} |->
                             IF k = key THEN <<[confidence |-> sign_req[r].confidence]>> \o old
                             ELSE sign_lists[k]]
    /\ SignStep(r, "expire")
    /\ UNCHANGED <<active_sessions, ACTIVE_SESSIONS, sign_strings, now, sign_frame>>

\* _store_result: EXPIRE results:{session_id} 3600; the result is returned
FrameExpire(r) ==
    /\ sign_req[r].pc = "expire"
    /\ SignFinish(r, "result")
    /\ UNCHANGED <<active_sessions, ACTIVE_SESSIONS, sign_strings, sign_lists, now, sign_frame>>

\* a store command of _store_result fails: the exception is caught, None
FrameStoreFails(r) ==
    /\ sign_req[r].pc \in {"lpush", "expire"}
    /\ SignFinish(r, "None")
    /\ UNCHANGED <<active_sessions, ACTIVE_SESSIONS, sign_strings, sign_lists, now, sign_frame>>

\* end_session on an id that is not in active_sessions: the error result
EndUnknown(r) ==
    /\ sign_req[r].pc = "idle"
    /\ \E session_id \in (DOMAIN active_sessions \cup sign_strings \cup {UnknownId}) :
           /\ session_id \notin DOMAIN active_sessions
           /\ sign_req' = [sign_req EXCEPT ![r] = [IdleRequest EXCEPT !.op = "end",
                                                   !.pc = "done", !.id = session_id,
                                                   !.outcome = "Session not found"]]
    /\ UNCHANGED <<active_sessions, ACTIVE_SESSIONS, sign_strings, sign_lists, now, sign_frame>>

\* end_session on an active session, up to the await of the results
EndBegin(r) ==
    /\ sign_req[r].pc = "idle"
    /\ \E session_id \in DOMAIN active_sessions :
           sign_req' = [sign_req EXCEPT ![r] = [IdleRequest EXCEPT !.op = "end",
                                                !.pc = "lrange", !.id = session_id]]
    /\ UNCHANGED <<active_sessions, ACTIVE_SESSIONS, sign_strings, sign_lists, now, sign_frame>>

\* results = await self.get_session_results(session_id)
EndLrange(r) ==
    /\ sign_req[r].pc = "lrange"
    /\ LET stored == IF sign_req[r].id \in DOMAIN sign_lists THEN sign_lists[sign_req[r].id]
                     ELSE <<>>
       IN  sign_req' = [sign_req EXCEPT
                            ![r].pc = "get",
                            ![r].total_gestures =
                                Len(get_session_results(stored, DefaultResultsLimit))]
    /\ UNCHANGED <<active_sessions, ACTIVE_SESSIONS, sign_strings, sign_lists, now, sign_frame>>

\* json.loads(await self._redis_get(f"session:{session_id}")) with the key gone:
\* the GET returns None and json.loads raises TypeError, before the cleanup
EndRecordMissing(r) ==
    /\ sign_req[r].pc = "get"
    /\ sign_req[r].id \notin sign_strings
    /\ SignFinish(r, "raised TypeError")
    /\ UNCHANGED <<active_sessions, ACTIVE_SESSIONS, sign_strings, sign_lists, now, sign_frame>>

\* the record is read, and del self.active_sessions[session_id] raises KeyError:
\* another end_session removed the id meanwhile
EndAlreadyRemoved(r) ==
    /\ sign_req[r].pc = "get"
    /\ sign_req[r].id \in sign_strings
    /\ sign_req[r].id \notin DOMAIN active_sessions
    /\ SignFinish(r, "raised KeyError")
    /\ UNCHANGED <<active_sessions, ACTIVE_SESSIONS, sign_strings, sign_lists, now, sign_frame>>

\* the record is read: the id is removed and the gauge decremented
EndRemove(r) ==
    /\ sign_req[r].pc = "get"
    /\ sign_req[r].id \in sign_strings
    /\ sign_req[r].id \in DOMAIN active_sessions
    /\ active_sessions' = [k \in DOMAIN active_sessions \ {sign_req[r].id} |->
                              active_sessions[k]]
    /\ ACTIVE_SESSIONS' = ACTIVE_SESSIONS - 1
    /\ SignStep(r, "delete_session")
    /\ UNCHANGED <<sign_strings, sign_lists, now, sign_frame>>

\* DELETE session:{session_id}
EndDeleteSession(r) ==
    /\ sign_req[r].pc = "delete_session"
    /\ sign_strings' = sign_strings \ {sign_req[r].id}
    /\ SignStep(r, "delete_results")
    /\ UNCHANGED <<active_sessions, ACTIVE_SESSIONS, sign_lists, now, sign_frame>>

\* DELETE results:{session_id}; the statistics are returned
EndDeleteResults(r) ==
    /\ sign_req[r].pc = "delete_results"
    /\ sign_lists' = [k \in DOMAIN sign_lists \ {sign_req[r].id} |-> sign_lists[k]]
    /\ SignFinish(r, "stats")
    /\ UNCHANGED <<active_sessions, ACTIVE_SESSIONS, sign_strings, now, sign_frame>>

\* a store command of end_session fails: end_session raises
EndStoreFails(r) ==
    /\ sign_req[r].pc \in {"lrange", "get", "delete_session", "delete_results"}
    /\ SignFinish(r, "raised store error")
    /\ UNCHANGED <<active_sessions, ACTIVE_SESSIONS, sign_strings, sign_lists, now, sign_frame>>

\* the next second begins
Tick ==
    /\ now < MaxClock
    /\ now' = now + 1
    /\ UNCHANGED <<active_sessions, ACTIVE_SESSIONS, sign_strings, sign_lists, sign_req,
                   sign_frame>>

\* max_session_duration seconds pass: the keys written with ex = 3600 and
\* EXPIRE 3600 are gone from the store; active_sessions is untouched
Elapse ==
    /\ now < MaxClock
    /\ sign_strings # {} \/ DOMAIN sign_lists # {}
    /\ now' = now + 1
    /\ sign_strings' = {}
    /\ sign_lists' = [k \in {} |-> <<>>]
    /\ UNCHANGED <<active_sessions, ACTIVE_SESSIONS, sign_req, sign_frame>>

\* ------------------------------------------------ real-time transcription
SpeechRequests == 1..MaxSpeechRequests
\* if len(accumulated_audio) < 32000
MinAudioBytes == 32000
ChunkSizes == {16000, 32000}
RECURSIVE Bytes(_)
Bytes(chunks) == IF chunks = <<>> THEN 0 ELSE Head(chunks).size + Bytes(Tail(chunks))
\* audio of exactly the minimum length taken as too short
TooShortInclusive(audio) == Bytes(audio) <= MinAudioBytes
TooShort(audio) == Bytes(audio) < MinAudioBytes
IdleCall == [pc |-> "idle", chunk |-> [id |-> 0, size |-> 0], appended |-> FALSE,
             accumulated_audio |-> <<>>, transcribed |-> FALSE, outcome |-> "none"]

SpeechQuiet ==
    /\ audio_chunks = <<>>
    /\ speech_req = [r \in SpeechRequests |-> IdleCall]

speech_frame == <<rec_vars, adapt_vars, analyze_vars, pool_vars, fn_vars, sign_vars>>

SpeechFinish(r, how) == speech_req' = [speech_req EXCEPT ![r].pc = "done", ![r].outcome = how]

\* real_time_transcription(audio_chunk, session_id, language) is called
RealTimeBegin(r) ==
    /\ speech_req[r].pc = "idle"
    /\ \E size \in ChunkSizes :
           speech_req' = [speech_req EXCEPT ![r].pc = "append",
                                            ![r].chunk = [id |-> r, size |-> size]]
    /\ UNCHANGED <<audio_chunks, speech_frame>>

\* _store_audio_chunk: APPEND audio_chunks:{session_id}
StoreAudioChunk(r) ==
    /\ speech_req[r].pc = "append"
    /\ audio_chunks' = Append(audio_chunks, speech_req[r].chunk)
    /\ speech_req' = [speech_req EXCEPT ![r].pc = "expire", ![r].appended = TRUE]
    /\ UNCHANGED speech_frame

\* _store_audio_chunk: EXPIRE audio_chunks:{session_id} 300
ExpireAudioChunks(r) ==
    /\ speech_req[r].pc = "expire"
    /\ speech_req' = [speech_req EXCEPT ![r].pc = "get"]
    /\ UNCHANGED <<audio_chunks, speech_frame>>

\* _get_accumulated_audio, and the length check: None below the minimum
GetAccumulatedAudio(r) ==
    /\ speech_req[r].pc = "get"
    /\ IF TooShort(audio_chunks)
       THEN speech_req' = [speech_req EXCEPT ![r].pc = "done", ![r].outcome = "None",
                                             ![r].accumulated_audio = audio_chunks]
       ELSE speech_req' = [speech_req EXCEPT ![r].pc = "transcribe",
                                             ![r].accumulated_audio = audio_chunks]
    /\ UNCHANGED <<audio_chunks, speech_frame>>

\* transcribe_audio returns the transcription of the audio read
TranscribeAudio(r) ==
    /\ speech_req[r].pc = "transcribe"
    /\ speech_req' = [speech_req EXCEPT ![r].pc = "clear", ![r].transcribed = TRUE]
    /\ UNCHANGED <<audio_chunks, speech_frame>>

\* transcribe_audio raises: the exception is caught, None, nothing is cleared
TranscribeAudioFails(r) ==
    /\ speech_req[r].pc = "transcribe"
    /\ SpeechFinish(r, "None")
    /\ UNCHANGED <<audio_chunks, speech_frame>>

\* _clear_accumulated_audio: DELETE audio_chunks:{session_id}; the result is returned
ClearAccumulatedAudio(r) ==
    /\ speech_req[r].pc = "clear"
    /\ audio_chunks' = <<>>
    /\ SpeechFinish(r, "result")
    /\ UNCHANGED speech_frame

\* a store command of the call fails: the exception is caught, None
SpeechStoreFails(r) ==
    /\ speech_req[r].pc \in {"append", "expire", "get", "clear"}
    /\ SpeechFinish(r, "None")
    /\ UNCHANGED <<audio_chunks, speech_frame>>

SvcQuiet == SignQuiet /\ SpeechQuiet

\* ------------------------------------------------------- specifications
Init == RecInit /\ AdaptInit /\ AnalyzeQuiet /\ PoolQuiet /\ FnQuiet /\ SvcQuiet

Next ==
    \/ RecBegin
    \/ RecGetProfile
    \/ RecGetProfileFails
    \/ RecGetHistory
    \/ RecGetHistoryFails
    \/ RecGetLessons
    \/ RecGetLessonsFails
    \/ RecScoreLesson
    \/ RecCompletedFails
    \/ RecLessonRaises
    \/ StoreSessionWrite

AnalyzeNext ==
    \/ \E r \in Requests : AnalyzeBegin(r)
    \/ \E r \in Requests : StoreSet(r)
    \/ \E r \in Requests : StoreSetFails(r)
    \/ \E r \in Requests : StoreLpush(r)
    \/ \E r \in Requests : StoreLpushFails(r)
    \/ \E r \in Requests : StoreLtrim(r)
    \/ \E r \in Requests : StoreLtrimFails(r)
    \/ \E r \in Requests : UpdateProfile(r)
    \/ \E r \in Requests : UpdateProfileFails(r)
    \/ \E r \in Requests : Metrics(r)
    \/ \E r \in Requests : MetricsFails(r)
    \/ \E r \in Requests : Insights(r)
    \/ RecommendBegin
    \/ RecGetProfile
    \/ RecGetProfileFails
    \/ RecGetHistory
    \/ RecGetHistoryFails
    \/ RecGetLessons
    \/ RecGetLessonsFails
    \/ RecScoreLesson
    \/ RecCompletedFails
    \/ RecLessonRaises
    \/ \E r \in Requests : AnalyzeReturn(r)
    \/ \E r \in Requests : AnalyzeReturnOther(r)

\* concurrent _store_session calls, each up to its return
StoreNext ==
    \/ \E r \in Requests : AnalyzeBegin(r)
    \/ \E r \in Requests : StoreSet(r)
    \/ \E r \in Requests : StoreSetFails(r)
    \/ \E r \in Requests : StoreLpush(r)
    \/ \E r \in Requests : StoreLpushFails(r)
    \/ \E r \in Requests : StoreLtrim(r)
    \/ \E r \in Requests : StoreLtrimFails(r)

StoreSpecInit == StoreInit /\ AdaptInit /\ PoolQuiet /\ FnQuiet /\ SvcQuiet
StoreSpec == StoreSpecInit /\ [][StoreNext]_vars

\* the session analysis, with the recommendation call it ends in
AnalyzeSpecInit == AnalyzeInit /\ AdaptInit /\ PoolQuiet /\ FnQuiet /\ SvcQuiet
AnalyzeSpec == AnalyzeSpecInit /\ [][AnalyzeNext]_vars

PoolNext ==
    \/ \E r \in PoolRequests : Submit(r)
    \/ \E r \in PoolRequests : Start(r)
    \/ \E r \in PoolRequests : Complete(r)

\* the store operations of concurrent requests on the executor
PoolSpecInit == RecQuiet /\ AdaptInit /\ AnalyzeQuiet /\ PoolQuiet /\ FnQuiet /\ SvcQuiet
PoolSpec == PoolSpecInit /\ [][PoolNext]_vars

FnNext ==
    \/ ApplyNovelty
    \/ ApplyDifficultyMatch
    \/ AnalyticsCall
    \/ AnalyticsReadFails
    \/ ApplyInsights
    \/ ApplyVelocity
    \/ GetSessionResults
    \/ GetTranscriptionHistory

\* one application of a scorer function, or one analytics call
FnSpecInit == RecQuiet /\ AdaptInit /\ AnalyzeQuiet /\ PoolQuiet /\ FnInit /\ SvcQuiet
FnSpec == FnSpecInit /\ [][FnNext]_vars

\* the sign-recognition sessions
SignNext ==
    \/ \E r \in SignRequests : StartSession(r)
    \/ \E r \in SignRequests : StartSet(r)
    \/ \E r \in SignRequests : StartSetFails(r)
    \/ \E r \in SignRequests : FrameUnknown(r)
    \/ \E r \in SignRequests : FrameNoHands(r)
    \/ \E r \in SignRequests : FrameBegin(r)
    \/ \E r \in SignRequests : FrameInfer(r)
    \/ \E r \in SignRequests : FrameInferFails(r)
    \/ \E r \in SignRequests : FrameLpush(r)
    \/ \E r \in SignRequests : FrameExpire(r)
    \/ \E r \in SignRequests : FrameStoreFails(r)
    \/ \E r \in SignRequests : EndUnknown(r)
    \/ \E r \in SignRequests : EndBegin(r)
    \/ \E r \in SignRequests : EndLrange(r)
    \/ \E r \in SignRequests : EndRecordMissing(r)
    \/ \E r \in SignRequests : EndAlreadyRemoved(r)
    \/ \E r \in SignRequests : EndRemove(r)
    \/ \E r \in SignRequests : EndDeleteSession(r)
    \/ \E r \in SignRequests : EndDeleteResults(r)
    \/ \E r \in SignRequests : EndStoreFails(r)
    \/ Tick
    \/ Elapse

SignSpecInit == RecQuiet /\ AdaptInit /\ AnalyzeQuiet /\ PoolQuiet /\ FnQuiet /\ SvcQuiet
SignSpec == SignSpecInit /\ [][SignNext]_vars

\* concurrent real_time_transcription calls of one session
SpeechNext ==
    \/ \E r \in SpeechRequests : RealTimeBegin(r)
    \/ \E r \in SpeechRequests : StoreAudioChunk(r)
    \/ \E r \in SpeechRequests : ExpireAudioChunks(r)
    \/ \E r \in SpeechRequests : GetAccumulatedAudio(r)
    \/ \E r \in SpeechRequests : TranscribeAudio(r)
    \/ \E r \in SpeechRequests : TranscribeAudioFails(r)
    \/ \E r \in SpeechRequests : ClearAccumulatedAudio(r)
    \/ \E r \in SpeechRequests : SpeechStoreFails(r)

SpeechSpecInit == RecQuiet /\ AdaptInit /\ AnalyzeQuiet /\ PoolQuiet /\ FnQuiet /\ SvcQuiet
SpeechSpec == SpeechSpecInit /\ [][SpeechNext]_vars

\* the recommendation engine
Spec == Init /\ [][Next]_vars

AdaptNext ==
    \/ AdaptBegin
    \/ AdaptGetHistory
    \/ AdaptGetHistoryFails
    \/ AdaptLog
    \/ AdaptLogFails
    \/ PerfHistoryWrite

\* the difficulty adaptation
AdaptSpecInit == RecQuiet /\ AdaptInit /\ AnalyzeQuiet /\ PoolQuiet /\ FnQuiet /\ SvcQuiet
AdaptSpec == AdaptSpecInit /\ [][AdaptNext]_vars

\* ======================================================= the claims
RecDone == pc = "done"
RecDoneOk == pc = "done" /\ ~failed

\* the lesson of the catalog the call read that a recommendation is for
CatalogIndex(rec) == CHOOSE i \in DOMAIN available_lessons : available_lessons[i].id = rec.lesson_id

\* the score of the i-th lesson the call read, as the call computed it
ScoreAt(i) == score_lesson_for_user(available_lessons[i], profile, history, completed_lessons)

\* C1: get_next_lesson_recommendations never raises; when a read fails at any
\* point, also after lessons were kept, it returns the empty list, never the
\* partial list.
C1_EmptyOnFailure ==
    RecDone => /\ outcome = "returned"
               /\ failed => result = <<>>

\* a read failed after the loop had kept a lesson
C1_Witness == RecDone /\ failed /\ recommendations # <<>> /\ result = <<>>

\* C2 as stated: for every integer count the returned list has length at most count.
C2_LengthAtMostCount == RecDone => Len(result) <= req_count

\* C2 amended: for count >= 0 the list has at most count entries; for count < 0
\* the slice drops the last -count entries of the sorted eligible lessons, so
\* the list has max(0, n + count) entries, n the number of eligible lessons.
C2_LengthPythonSlice ==
    RecDone =>
        /\ req_count >= 0 => Len(result) <= req_count
        /\ req_count < 0 /\ ~failed =>
               Len(result) = Max(Len(recommendations) + req_count, 0)

\* the list was cut to count: more lessons were eligible than asked for
C2_Witness ==
    RecDoneOk /\ req_count >= 1 /\ Len(recommendations) > req_count /\ Len(result) = req_count

\* C3: the returned list is ordered by confidence_score non-increasing, and two
\* returned lessons with equal scores are in catalog order.
C3_SortedStable ==
    RecDone =>
        \A i, j \in DOMAIN result :
            i < j =>
                /\ result[i].confidence_score >= result[j].confidence_score
                /\ result[i].confidence_score = result[j].confidence_score
                       => CatalogIndex(result[i]) < CatalogIndex(result[j])

\* two lessons with equal scores were returned
C3_Witness ==
    RecDoneOk /\ Len(result) >= 2 /\ result[1].confidence_score = result[2].confidence_score

\* the lessons the call read that clear the threshold
EligibleIndexes == {i \in DOMAIN available_lessons : ScoreAt(i) > ConfidenceThreshold}
\* the place of lesson i among them: score descending, catalog order among equals
Rank(i) ==
    1 + Cardinality({j \in EligibleIndexes :
                        \/ ScoreAt(j) > ScoreAt(i)
                        \/ ScoreAt(j) = ScoreAt(i) /\ j < i})

\* C4: a lesson is returned only if its score is strictly above 0.3; every lesson
\* above 0.3 is returned, at its place in the score-sorted list, unless that
\* place is past the first count; for count >= 0 the result is exactly the first
\* count of the filtered, sorted catalog.
C4_ThresholdAndPrefix ==
    RecDoneOk =>
        /\ \A k \in DOMAIN result :
               /\ result[k].confidence_score > ConfidenceThreshold
               /\ result[k].confidence_score = ScoreAt(CatalogIndex(result[k]))
        /\ \A i \in EligibleIndexes :
               Rank(i) <= req_count =>
                   /\ Rank(i) <= Len(result)
                   /\ result[Rank(i)].lesson_id = available_lessons[i].id
        /\ req_count >= 0 => Len(result) = Min(req_count, Cardinality(EligibleIndexes))

\* a lesson that scored exactly 0.3 was discarded while another was returned
C4_Witness ==
    /\ RecDoneOk /\ result # <<>>
    /\ \E i \in DOMAIN available_lessons : ScoreAt(i) = ConfidenceThreshold

\* C5: the score of every lesson is in [0, 1], and the weighted sum itself never
\* exceeds 1: the final min never clamps.
C5_ScoreInUnitInterval ==
    pc = "score" =>
        \A i \in DOMAIN available_lessons :
            ~ScoringRaises(available_lessons[i]) =>
                /\ 0 <= ScoreAt(i) /\ ScoreAt(i) <= FullScore
                /\ ScoreAt(i) = WeightedSum(available_lessons[i], profile, history,
                                            completed_lessons)

\* a lesson whose five sub-scores are all 1.0: the sum is exactly 1
C5_Witness ==
    /\ pc = "score"
    /\ \E i \in DOMAIN available_lessons :
           WeightedSum(available_lessons[i], profile, history, completed_lessons) = FullScore

\* a step of the call: every one of them moves pc or the loop index
RecStep == pc' # pc \/ idx' # idx

AdaptDone == a_pc = "done"
AdaptFailed == history_failed \/ log_failed

\* the claim's conditions on the sample, defaults applied
DecreaseCondition == current_accuracy(current_performance) < 50
                         /\ current_engagement(current_performance) < 40
IncreaseCondition == current_accuracy(current_performance) > 90
                         /\ current_speed(current_performance) > 150

\* C7: the decision is decrease_difficulty exactly when accuracy < 0.5 and
\* engagement < 0.4, otherwise increase_difficulty exactly when accuracy > 0.9
\* and speed > 1.5, otherwise stable (adapted = false); the comparisons are
\* strict and the two conditions never hold together.
C7_DecisionRule ==
    (a_pc \in {"log", "done"} /\ ~history_failed) =>
        /\ adaptation_type = "decrease_difficulty" <=> DecreaseCondition
        /\ adaptation_type = "increase_difficulty" <=> (~DecreaseCondition /\ IncreaseCondition)
        /\ adaptation_type = "None" <=> (~DecreaseCondition /\ ~IncreaseCondition)
        /\ ~(DecreaseCondition /\ IncreaseCondition)
        /\ (AdaptDone /\ ~log_failed) =>
               /\ a_result.adapted <=> adaptation_type # "None"
               /\ a_result.adapted => a_result.adaptation_type = adaptation_type

\* a sample on the boundary, accuracy exactly 0.5 with engagement below 0.4, is stable
C7_Witness ==
    /\ AdaptDone /\ ~AdaptFailed
    /\ current_accuracy(current_performance) = 50
    /\ current_engagement(current_performance) < 40
    /\ ~a_result.adapted

\* C8: when recording the decision fails, the call still returns the decision
\* it reached, adapted = true with the adaptation type.
C8_DecisionSurvivesRecordingFailure ==
    (AdaptDone /\ log_failed) =>
        /\ a_result.adapted
        /\ a_result.adaptation_type = adaptation_type

C10_NeverRaises ==
    AdaptDone =>
        /\ a_outcome = "returned"
        /\ AdaptFailed => (~a_result.adapted /\ "error" \in DOMAIN a_result)
        /\ a_result.adapted => "error" \notin DOMAIN a_result

\* the recording failed and the caller got adapted = false with the error
C10_Witness ==
    /\ AdaptDone /\ log_failed /\ a_outcome = "returned"
    /\ ~a_result.adapted /\ "error" \in DOMAIN a_result


\* the four settings of a parameter bundle
BundleOf(params) == [k \in DOMAIN params \ {"reasoning"} |-> params[k]]
DecreaseBundle == [hint_frequency |-> "increased", time_pressure |-> "reduced",
                   complexity |-> "simplified", examples |-> "more_provided"]
IncreaseBundle == [hint_frequency |-> "reduced", time_pressure |-> "increased",
                   complexity |-> "enhanced", bonus_challenges |-> "enabled"]
AdaptReturns == a_pc # "done" /\ a_pc' = "done"

\* C11: a call that returns adapted = true names decrease_difficulty or
\* increase_difficulty, carries the fixed parameter bundle of that type, and
\* wrote exactly one audit record, of that decision; the audit log changes in
\* no other step, so a stable decision and a failed call write none.
C11_BundleAndOneAuditRecord ==
    /\ [](AdaptDone /\ a_result.adapted =>
             /\ a_result.adaptation_type \in {"decrease_difficulty", "increase_difficulty"}
             /\ a_result.adaptation_type = "decrease_difficulty" =>
                    BundleOf(a_result.parameters) = DecreaseBundle
             /\ a_result.adaptation_type = "increase_difficulty" =>
                    BundleOf(a_result.parameters) = IncreaseBundle
             /\ adaptation_log # <<>>
             /\ adaptation_log[Len(adaptation_log)] =
                    AuditRecord(User, Lesson, a_result.adaptation_type, a_result.parameters))
    /\ [][/\ AdaptReturns /\ a_result'.adapted =>
                Len(adaptation_log') = Len(adaptation_log) + 1
          /\ adaptation_log' # adaptation_log =>
                /\ AdaptReturns /\ a_result'.adapted
                /\ SubSeq(adaptation_log', 1, Len(adaptation_log)) = adaptation_log]_vars
C11_Witness ==
    /\ AdaptDone /\ a_result.adapted /\ a_result.adaptation_type = "increase_difficulty"
    /\ Len(adaptation_log) = 2
    /\ adaptation_log[1].adaptation_type = "decrease_difficulty"
    /\ a_prev.decision = [adapted |-> TRUE, adaptation_type |-> "decrease_difficulty"]

\* ---- analyze_learning_session
StepOrder == <<"store", "update_profile", "metrics", "insights", "recommend">>
IsPrefix(a, b) == Len(a) <= Len(b) /\ SubSeq(b, 1, Len(a)) = a
AnalyzeDone(r) == an_pc[r] = "done"
\* the recommendation call that request r issued has returned and is still the latest
OwnRecommendationDone(r) ==
    /\ an_session[r].user_id = User /\ an_trace[r] = StepOrder
    /\ pc = "done" /\ calls = an_ticket[r] + 1

\* C12 as stated: a failure in any of the five steps, the recommendation step
\* included, is propagated to the caller.
C12_EveryFailurePropagates ==
    \A r \in Requests :
        AnalyzeDone(r) /\ OwnRecommendationDone(r) /\ failed => an_outcome[r] = "raised"

\* C12: the steps of a request start in the order store, profile update,
\* metrics, insights, recommendation, each once; a request that raised did so
\* in the last step it started, one of the first four, and started none after
\* it; a request that returned ran all five (a store failure inside the
\* recommendation step is absorbed there and the request returns); a finished
\* request does nothing more.
C12_StrictSequence ==
    /\ [](\A r \in Requests :
            /\ IsPrefix(an_trace[r], StepOrder)
            /\ an_outcome[r] = "raised" =>
                   /\ AnalyzeDone(r)
                   /\ an_trace[r] # <<>> /\ Len(an_trace[r]) <= 4
                   /\ an_result[r] = [error |-> an_trace[r][Len(an_trace[r])]]
            /\ an_outcome[r] = "returned" =>
                   /\ AnalyzeDone(r) /\ an_trace[r] = StepOrder
                   /\ "error" \notin DOMAIN an_result[r]
            /\ AnalyzeDone(r) => an_outcome[r] \in {"raised", "returned"})
    /\ [][\A r \in Requests :
            /\ AnalyzeDone(r) =>
                   /\ an_pc'[r] = "done" /\ an_trace'[r] = an_trace[r]
                   /\ an_result'[r] = an_result[r] /\ an_outcome'[r] = an_outcome[r]
            /\ IsPrefix(an_trace[r], an_trace'[r])
            /\ Len(an_trace'[r]) <= Len(an_trace[r]) + 1]_vars
C12_Witness ==
    /\ an_outcome[1] = "raised" /\ an_trace[1] = <<"store", "update_profile", "metrics">>
    /\ an_outcome[2] = "returned" /\ OwnRecommendationDone(2) /\ failed
    /\ an_result[2].recommendations = <<>>

KeyOf(r) == SessionKey(an_session[r].user_id, an_session[r].start_time)
Listed(r) == InList(KeyOf(r), redis_lrange(redis_lists, UserSessionsKey(an_session[r].user_id)))

\* C13: when a session analysis raises, the store holds neither the session
\* record nor an entry for it in the user's session list.
C13_ErrorMeansNothingStored ==
    \A r \in Requests :
        an_outcome[r] = "raised" => KeyOf(r) \notin DOMAIN redis_strings /\ ~Listed(r)

\* the recommendation call of request r is in progress and has passed stage
RecommendationPast(r, stages) ==
    /\ an_pc[r] = "recommend" /\ an_session[r].user_id = User
    /\ calls = an_ticket[r] /\ pc \in stages
OnlyWriterOfKey(r) ==
    \A q \in Requests : q # r /\ an_session[q] # NoSession => KeyOf(q) # KeyOf(r)
OnlyWriterOfProfile(r) ==
    \A q \in Requests : q # r /\ an_session[q] # NoSession =>
        an_session[q].user_id # User \/ ~InList("update_profile", an_trace[q])

\* C14: the recommendation call of a session analysis starts after the
\* request's session write and profile update completed; each of its reads takes
\* what the store holds at that moment, never an earlier copy; so the profile it
\* scores with carries an update stamp (this request's, when no other request
\* updated the profile) and the history it scores with holds the record under
\* this request's session key (this request's session, when no other request
\* wrote that key).
C14_ReadYourWrites ==
    /\ [](\A r \in Requests :
            /\ RecommendationPast(r, {"get_profile", "get_history", "get_lessons", "score"}) =>
                   SubSeq(an_trace[r], 1, 2) = <<"store", "update_profile">>
            /\ RecommendationPast(r, {"get_history", "get_lessons", "score"}) =>
                   /\ "last_updated" \in DOMAIN profile
                   /\ OnlyWriterOfProfile(r) => profile.last_updated = an_session[r].start_time
            /\ RecommendationPast(r, {"get_lessons", "score"}) =>
                   /\ \E i \in DOMAIN history :
                          SessionKey(history[i].user_id, history[i].start_time) = KeyOf(r)
                   /\ OnlyWriterOfKey(r) =>
                          \E i \in DOMAIN history : history[i] = SessionData(an_session[r]))
    /\ [][/\ pc = "get_profile" /\ pc' = "get_history" =>
                profile' = get_user_profile(User, redis_get(redis_strings, ProfileKey(User)))
          /\ pc = "get_history" /\ pc' = "get_lessons" =>
                history' = HistoryOf(User, redis_strings, redis_lists)]_vars
C14_Witness ==
    /\ RecommendationPast(2, {"score"})
    /\ an_outcome[1] = "returned" /\ an_session[1].user_id = User
    /\ Len(history) = 2 /\ history[2] = SessionData(an_session[2])
    /\ profile.last_updated = an_session[2].start_time
    /\ an_session[1].start_time # an_session[2].start_time

\* the request has completed _store_session
Stored(r) == InList("store", an_trace[r]) /\ an_pc[r] \notin {"set", "lpush", "ltrim"}
                /\ ~(an_outcome[r] = "raised" /\ an_result[r] = [error |-> "store"])

\* C15: every session that was stored is still in the store with its original
\* field values and is still listed in its user's session history.
C15_StoredSessionsImmutable ==
    \A r \in Requests :
        Stored(r) => /\ redis_get(redis_strings, KeyOf(r)) = SessionData(an_session[r])
                     /\ Listed(r)

\* the part of the store that belongs to a user, and what is read of it
ViewOf(u) ==
    <<[k \in {x \in DOMAIN redis_strings :
                  \/ x = ProfileKey(u)
                  \/ \E t \in StartTimes : x = SessionKey(u, t)} |-> redis_strings[k]],
      redis_lrange(redis_lists, UserSessionsKey(u)),
      HistoryOf(u, redis_strings, redis_lists)>>
\* a request of user u takes a step
StepOf(u) == \E r \in Requests : an_pc'[r] # an_pc[r] /\ an_session'[r].user_id = u
\* the requests of user u, as the caller sees them
CallsOf(u) ==
    [r \in {q \in Requests : an_session[q] # NoSession /\ an_session[q].user_id = u} |->
        <<an_pc[r], an_trace[r], an_metrics[r], an_insights[r], an_result[r], an_outcome[r]>>]

\* C16: a step of a request of one user changes nothing of what the store
\* holds under the other user's keys, of what the other user's requests read
\* from it, or of the other user's requests: the records, lists, profile,
\* history and calls of a user are the same under every interleaving with the
\* requests of the other user.
C16_UsersIndependent ==
    /\ [][/\ StepOf(OtherUser) =>
                /\ ViewOf(User)' = ViewOf(User) /\ CallsOf(User)' = CallsOf(User)
                /\ UNCHANGED <<user_profile, user_history, rec_vars>>
          /\ StepOf(User) \/ pc' # pc \/ idx' # idx =>
                ViewOf(OtherUser)' = ViewOf(OtherUser) /\ CallsOf(OtherUser)' = CallsOf(OtherUser)]_vars
    /\ [](/\ user_profile = redis_get(redis_strings, ProfileKey(User))
          /\ user_history = HistoryOf(User, redis_strings, redis_lists))
C16_Witness ==
    /\ an_session[1] # NoSession /\ an_session[2] # NoSession
    /\ an_session[1].user_id = User /\ an_session[2].user_id = OtherUser
    /\ an_session[1].start_time = an_session[2].start_time
    /\ an_outcome[1] = "returned" /\ an_outcome[2] = "returned"
    /\ Len(ViewOf(User)[3]) = 1 /\ Len(ViewOf(OtherUser)[3]) = 1
    /\ ViewOf(User)[3][1].lesson_id # ViewOf(OtherUser)[3][1].lesson_id

\* ---- the worker pool
\* C17: at most 2 store operations of the learning engine are running on worker
\* threads at any moment, whatever the number of concurrent requests.
C17_AtMostTwoInFlight == Cardinality(Running) <= ExecutorWorkers

\* ---- the scorer functions
NoveltyApplied == fn_in.fn = "novelty" /\ fn_out # NoResult
\* the ids of the last ten sessions, oldest first, and the occurrences of the lesson
RecentIds ==
    LET n == Len(fn_in.history)
        first == IF n > 10 THEN n - 10 ELSE 0
    IN  [i \in 1..(n - first) |-> fn_in.history[first + i].lesson_id]
Occurrences == {i \in DOMAIN RecentIds : RecentIds[i] = fn_in.lesson_id}
MostRecentOccurrence == CHOOSE i \in Occurrences : \A j \in Occurrences : j <= i

\* C18 as stated: absent from the last ten the score is 1.0, otherwise
\* max(0.2, 1.0 - k/10) with k counted from the end of the window (0 = most
\* recent entry).
C18_NoveltyFromEnd ==
    NoveltyApplied =>
        fn_out.value =
            IF Occurrences = {} THEN One
            ELSE Max(Tenths(2), One - Tenths(Len(RecentIds) - MostRecentOccurrence))

\* C18: absent from the last ten sessions the score is 1.0; otherwise, with j
\* the 0-based index, counted from the start (the oldest entry) of that window,
\* of the lesson's most recent occurrence, the score is max(0.2, 1.0 - j/10).
C18_NoveltyFromStart ==
    NoveltyApplied =>
        fn_out.value =
            IF Occurrences = {} THEN One
            ELSE Max(Tenths(2), One - Tenths(MostRecentOccurrence - 1))
C18_Witness ==
    /\ NoveltyApplied /\ Len(fn_in.history) = 11
    /\ fn_in.history[1].lesson_id = "l1"
    /\ Occurrences = {2, 4}
    /\ fn_out.value = Tenths(7)

DifficultyApplied == fn_in.fn = "difficulty" /\ fn_out # NoResult
LevelOf(d) ==
    IF d = "beginner" THEN 1 ELSE IF d = "advanced" THEN 3 ELSE 2

\* C19: with beginner = 1, intermediate = 2, advanced = 3 and any other string
\* = 2, the difficulty match is 1.0 for lesson level - user level = 0, 0.8 for
\* +1, 0.6 for -1 and 0.2 otherwise.
C19_DifficultyMatchTable ==
    DifficultyApplied =>
        LET diff == LevelOf(fn_in.lesson_difficulty) - LevelOf(fn_in.user_skill)
        IN  fn_out.value = CASE diff = 0 -> One
                             [] diff = 1 -> Tenths(8)
                             [] diff = -1 -> Tenths(6)
                             [] OTHER -> Tenths(2)
C19_Witness ==
    /\ DifficultyApplied
    /\ fn_in.lesson_difficulty = "expert" /\ fn_in.user_skill = "advanced"
    /\ fn_out.value = Tenths(6)

\* ---- get_learning_analytics
\* <integer>d: an optional sign, one digit or more, then the letter d
IsIntegerD(tf) ==
    LET digits == IF tf # <<>> /\ tf[1] \in {"+", "-"} THEN Tail(tf) ELSE tf
    IN  /\ Len(digits) >= 2
        /\ digits[Len(digits)] = "d"
        /\ \A i \in 1..(Len(digits) - 1) : IsDigit(digits[i])

\* C20: aggregate statistics are returned only for a timeframe of the form
\* <integer>d; every other timeframe string fails the call.
C20_OnlyIntegerD ==
    fn_in.fn = "analytics" /\ fn_out # NoResult /\ "error" \notin DOMAIN fn_out
        => IsIntegerD(fn_in.timeframe)

\* ---- the profile default
\* C21: with no profile stored, the profile read succeeds with the default
\* profile (mixed, beginner, medium, nothing in strengths, weaknesses, goals);
\* the call goes on to the history read and scores against that default.
C21_DefaultProfileWhenAbsent ==
    /\ [][pc = "get_profile" /\ pc' = "get_history" /\ user_profile = NoProfile =>
             profile' = [user_id |-> User, learning_style |-> "mixed",
                         skill_level |-> "beginner", preferred_pace |-> "medium",
                         strengths |-> <<>>, weaknesses |-> <<>>, goals |-> <<>>]]_vars
    /\ [](user_profile = NoProfile /\ pc \in {"get_history", "get_lessons", "score"} =>
             /\ profile.learning_style = "mixed" /\ profile.skill_level = "beginner"
             /\ profile.preferred_pace = "medium" /\ profile.goals = <<>>)
    /\ [](user_profile = NoProfile /\ RecDoneOk =>
             \A i \in DOMAIN result :
                 result[i].confidence_score =
                     score_lesson_for_user(available_lessons[CatalogIndex(result[i])],
                                           [user_id |-> User, learning_style |-> "mixed",
                                            skill_level |-> "beginner",
                                            preferred_pace |-> "medium", strengths |-> <<>>,
                                            weaknesses |-> <<>>, goals |-> <<>>],
                                           history, completed_lessons))
C21_Witness ==
    /\ user_profile = NoProfile /\ RecDoneOk /\ ~failed
    /\ Len(result) = 2 /\ result[1].lesson_id = "l1" /\ result[2].lesson_id = "l4"

\* ---- the insights
InsightsApplied == fn_in.fn = "insights" /\ fn_out # NoResult
AccuracyMessages == {"review prerequisites", "excellent accuracy"}
TimeMessages == {"extra time is beneficial", "progressing quickly"}
EngagementMessages == {"try shorter sessions", "high engagement"}
AttemptsMessages == {"multiple attempts show persistence"}
\* the rank of a message: accuracy, time, engagement, attempts
MessageRank(m) ==
    IF m \in AccuracyMessages THEN 1 ELSE IF m \in TimeMessages THEN 2
    ELSE IF m \in EngagementMessages THEN 3 ELSE 4
Has(out, m) == \E i \in DOMAIN out : out[i] = m
\* C22: the insights come in the order accuracy, time, engagement, attempts; a
\* signal gives its low message exactly below its lower threshold, its high
\* message exactly above its upper one and nothing on the closed band between;
\* the attempts message comes exactly when attempts exceed 3.
C22_InsightsOrderedAndExclusive ==
    InsightsApplied =>
        LET out == fn_out.value
            m == fn_in.metrics
        IN  /\ \A i, j \in DOMAIN out : i < j => MessageRank(out[i]) < MessageRank(out[j])
            /\ Has(out, "review prerequisites") <=> m.accuracy_rate < 60
            /\ Has(out, "excellent accuracy") <=> m.accuracy_rate > 90
            /\ Has(out, "extra time is beneficial") <=> m.time_efficiency < 50
            /\ Has(out, "progressing quickly") <=> m.time_efficiency > 200
            /\ Has(out, "try shorter sessions") <=> m.engagement_score < 50
            /\ Has(out, "high engagement") <=> m.engagement_score > 80
            /\ Has(out, "multiple attempts show persistence") <=> fn_in.attempts > 3
            /\ \A i \in DOMAIN out :
                   out[i] \in AccuracyMessages \cup TimeMessages \cup EngagementMessages
                                  \cup AttemptsMessages
C22_Witness ==
    /\ InsightsApplied
    /\ fn_in.metrics = [accuracy_rate |-> 60, time_efficiency |-> 200, engagement_score |-> 81]
    /\ fn_in.attempts = 4
    /\ fn_out.value = <<"high engagement", "multiple attempts show persistence">>

\* ---- the learning velocity
VelocityApplied == fn_in.fn = "velocity" /\ fn_out # NoResult
SessionsOf(ss) == {ss[i] : i \in DOMAIN ss}
Earliest(ss) ==
    CHOOSE x \in SessionsOf(ss) : \A y \in SessionsOf(ss) : x.start_time <= y.start_time
Latest(ss) ==
    CHOOSE x \in SessionsOf(ss) : \A y \in SessionsOf(ss) : x.start_time >= y.start_time
\* C23: the velocity is 0 with fewer than two sessions, and otherwise the
\* accuracy of the latest session minus that of the earliest, by start time,
\* over the number of sessions, whatever the order the store returned them in.
C23_VelocityByStartTime ==
    VelocityApplied =>
        LET ss == fn_in.sessions
        IN  IF Len(ss) < 2 THEN fn_out.value = 0
            ELSE fn_out.value * Len(ss) =
                     Latest(ss).accuracy_score - Earliest(ss).accuracy_score
C23_Witness ==
    /\ VelocityApplied
    /\ fn_in.sessions = <<[start_time |-> 6, accuracy_score |-> 90],
                          [start_time |-> 2, accuracy_score |-> 30],
                          [start_time |-> 4, accuracy_score |-> 60]>>
    /\ fn_out.value = 20

\* ---- the limit of the list reads
LimitApplied == fn_in.fn \in {"session_results", "transcription_history"} /\ fn_out # NoResult
\* C30: for every limit >= 0 both reads return at most limit entries, the most
\* recently stored first; limit 0 returns the empty list.
C30_AtMostLimit ==
    LimitApplied /\ fn_in.limit >= 0 =>
        /\ Len(fn_out.value) <= fn_in.limit
        /\ IsPrefix(fn_out.value, fn_in.entries)

\* ---- the user's session list under concurrent stores
SessionList(u) == redis_lrange(redis_lists, UserSessionsKey(u))
CountOf(list, x) == Cardinality({i \in DOMAIN list : list[i] = x})
\* the calls for user u have all returned or raised
StoresSettled(u) ==
    \A r \in Requests :
        an_session[r] # NoSession /\ an_session[r].user_id = u =>
            an_pc[r] \in {"update_profile", "done"}
\* the calls for user u that returned
StoredBy(u) ==
    {r \in Requests : /\ an_session[r] # NoSession /\ an_session[r].user_id = u
                      /\ an_pc[r] = "update_profile"}
DistinctSeconds(u) ==
    \A r, q \in Requests :
        /\ r # q /\ an_session[r] # NoSession /\ an_session[q] # NoSession
        /\ an_session[r].user_id = u /\ an_session[q].user_id = u
        => KeyOf(r) # KeyOf(q)
\* C24: after any interleaving of _store_session calls for one user with
\* distinct start seconds, the user's list names the key of every call that
\* returned exactly once, every push went to the head of the list, earlier
\* entries keep their order behind the new ones, and the list has at most
\* 1000 entries.
C24_ListHoldsEveryStoredKeyOnce ==
    /\ [](\A u \in Users :
             StoresSettled(u) /\ DistinctSeconds(u) =>
                 \A r \in StoredBy(u) : CountOf(SessionList(u), KeyOf(r)) = 1)
    /\ [](\A u \in Users :
             (\A r \in Requests : an_session[r] # NoSession /\ an_session[r].user_id = u
                                      => r \in StoredBy(u))
             => Len(SessionList(u)) <= LtrimEnd + 1)
    /\ [](\E n \in 0..MaxRequests :
             /\ n <= Len(SessionList(User))
             /\ \A i \in 1..n : \E r \in Requests : an_session[r] # NoSession
                                                     /\ SessionList(User)[i] = KeyOf(r)
             /\ LET rest == SubSeq(SessionList(User), n + 1, Len(SessionList(User)))
                IN  rest = <<>> \/ IsPrefix(rest, OlderKeys))
    /\ [][\A r \in Requests :
             an_pc[r] = "lpush" /\ an_pc'[r] = "ltrim" =>
                 redis_lrange(redis_lists', UserSessionsKey(an_session[r].user_id)) =
                     <<KeyOf(r)>> \o SessionList(an_session[r].user_id)]_vars
C24_Witness ==
    /\ StoredBy(User) = Requests /\ DistinctSeconds(User)
    /\ Len(SessionList(User)) = LtrimEnd + 1
    /\ SessionList(User)[3] = OlderKeys[1]
    /\ SessionList(User)[LtrimEnd + 1] = OlderKeys[LtrimEnd - 1]

\* ---- the sign-recognition sessions
\* C25: the gauge equals the number of entries of active_sessions after any
\* sequence of start_session and end_session calls.
C25_GaugeIsActiveCount == ACTIVE_SESSIONS = Cardinality(DOMAIN active_sessions)

\* an end_session call that has finished, on an id it found active and that a
\* start_session call had returned
EndedActive(r) ==
    /\ sign_req[r].op = "end" /\ sign_req[r].pc = "done"
    /\ sign_req[r].outcome # "Session not found"
    /\ \E q \in SignRequests : /\ sign_req[q].op = "start" /\ sign_req[q].id = sign_req[r].id
                                /\ sign_req[q].outcome = "session_id"
\* C26: an end_session call on an id present in active_sessions, with no store
\* command failing and no other end_session of the same id, returns the
\* statistics and leaves the id out of active_sessions, also when the session
\* record has expired.
C26_StartedSessionCanBeEnded ==
    \A r \in SignRequests :
        /\ EndedActive(r)
        /\ sign_req[r].outcome \notin {"raised store error", "raised KeyError"}
        => sign_req[r].outcome = "stats"

\* the session of request r was ended and not started again
EndCompleted(r) ==
    /\ sign_req[r].op = "end" /\ sign_req[r].outcome = "stats"
    /\ sign_req[r].id \notin DOMAIN active_sessions
\* C27: once end_session has completed for a session the store holds no
\* results:{session_id} key, under every interleaving with a process_frame in
\* flight.
C27_NoResultsAfterEnd ==
    \A r \in SignRequests : EndCompleted(r) => sign_req[r].id \notin DOMAIN sign_lists

\* ---- real-time transcription
Chunks(audio) == {audio[i].id : i \in DOMAIN audio}
\* call r reads the accumulated audio in this step
ReadsAudio(r) ==
    /\ speech_req[r].pc = "get" /\ speech_req'[r].pc \in {"done", "transcribe"}
    /\ audio_chunks # <<>> /\ speech_req'[r].accumulated_audio = audio_chunks
Handed(r) ==
    \E q \in SpeechRequests :
        /\ speech_req[q].pc \in {"transcribe", "clear", "done"}
        /\ ~TooShort(speech_req[q].accumulated_audio)
        /\ r \in Chunks(speech_req[q].accumulated_audio)
\* C29: under concurrent calls of one session every chunk appended is in the
\* audio handed to some transcription or still in the buffer.
C29_NoChunkLost ==
    \A r \in SpeechRequests :
        speech_req[r].appended => r \in Chunks(audio_chunks) \/ Handed(r)


====
